---- MODULE Spec2Model ----
(***************************************************************************)
(* Model of the ameeba-ai-api service layer: Projects, Prompts and         *)
(* PromptVersions stored in MongoDB collections, and the request handlers  *)
(* of projectService / promptService / promptVersionService.  Every        *)
(* awaited database call of a handler is one atomic step; steps of         *)
(* different in-flight requests interleave freely.                         *)
(***************************************************************************)
EXTENDS Integers, Sequences, FiniteSets, TLC

VARIABLES projects, prompts, versions, req, budget, serial, orphaned, window,
          activations, http, users, authReq, issued, env

vars == <<projects, prompts, versions, req, budget, serial, orphaned, window,
          activations, http, users, authReq, issued, env>>
identity == <<users, issued, env>>
db == <<projects, prompts, versions>>

(* ------------------------------ bounds --------------------------------- *)
MaxProjects == 2
MaxPrompts == 2
MaxVersions == 3
MaxRequests == 2

Procs == {"r1", "r2"}
Users == {"A", "B"}

(* request text as typed by the client: a sequence of characters *)
RawTexts == {<<" ", "y", " ">>}
RawNames == {<<" ", "m">>}

(* --------------------------- constants.ts ------------------------------ *)
HTTP_OK == 200
HTTP_CREATED == 201
HTTP_BAD_REQUEST == 400
HTTP_NOT_FOUND == 404
HTTP_CONFLICT == 409
HTTP_INTERNAL_SERVER_ERROR == 500
DEFAULT_IS_ACTIVE == TRUE
DEFAULT_ACTIVE_PROMPT == FALSE
DUPLICATE_KEY_CODE == 11000

(* ------------------------- errorMessages.ts ---------------------------- *)
PROJECT_NOT_FOUND == "Project not found"
PROJECT_DELETED == "Project has been deleted"
PROMPT_NOT_FOUND == "Prompt not found"
PROMPT_DELETED == "Prompt has been deleted"
PROMPT_VERSION_NOT_FOUND == "Prompt version not found"
PROMPT_VERSION_DELETED == "Prompt version has been deleted"
NO_ACTIVE_VERSION_FOUND == "No active version found for this prompt"
NO_VALID_FIELDS_TO_UPDATE == "No valid fields to update"
DUPLICATE_KEY(field) == <<field, " already exists with this value">>

(* ------------------------------ strings -------------------------------- *)
RECURSIVE TrimStart(_)
TrimStart(s) ==
  IF s # <<>> /\ Head(s) = " " THEN TrimStart(Tail(s)) ELSE s

RECURSIVE TrimEnd(_)
TrimEnd(s) ==
  IF s # <<>> /\ s[Len(s)] = " " THEN TrimEnd(SubSeq(s, 1, Len(s) - 1)) ELSE s

(* String.prototype.trim *)
trim(s) == TrimEnd(TrimStart(s))

(* template literals `v${n}` and `Version ${n}` *)
versionLabel(n) == <<"v", n>>
versionNameLabel(n) == <<"Version ", n>>

(* ------------------------------ errors --------------------------------- *)
(* new Error(message) with error.statusCode = code *)
ApiError(code, message) ==
  [name |-> "Error", statusCode |-> code, code |-> 0, message |-> message,
   field |-> ""]

(* the E11000 error the driver raises when a write breaks a unique index *)
MongoServerError(field) ==
  [name |-> "MongoServerError", statusCode |-> 0, code |-> DUPLICATE_KEY_CODE,
   message |-> "E11000 duplicate key error", field |-> field]

errorHandler_weak(err) ==
  [success |-> FALSE,
   status |-> IF err.statusCode # 0 THEN err.statusCode
              ELSE HTTP_INTERNAL_SERVER_ERROR,
   message |-> err.message,
   data |-> 0]

errorHandler(err) ==
  LET status0 == IF err.statusCode # 0 THEN err.statusCode
                 ELSE HTTP_INTERNAL_SERVER_ERROR
      dup == err.name = "MongoServerError" /\ err.code = DUPLICATE_KEY_CODE
      status1 == IF dup THEN HTTP_CONFLICT ELSE status0
      message1 == IF dup THEN DUPLICATE_KEY(err.field) ELSE err.message
  IN [success |-> FALSE,
      status |-> IF err.statusCode # 0 THEN err.statusCode ELSE status1,
      message |-> IF err.statusCode # 0 THEN err.message ELSE message1,
      data |-> 0]

sendSuccess(data, statusCode) ==
  [success |-> TRUE, status |-> statusCode, message |-> "", data |-> data]

sendCreated(data) == sendSuccess(data, HTTP_CREATED)

(* ---------------------------- collections ------------------------------ *)
(* A collection is a sequence of documents; a document's _id is its index. *)
(* Documents are never physically removed.                                 *)
ProjectIds == 1..MaxProjects
PromptIds == 1..MaxPrompts
VersionIds == 1..MaxVersions

Exists(coll, id) == id \in 1..Len(coll)

(* Model.findOne({_id, userId}) : 0 when no document matches *)
findOwned(coll, id, userId) ==
  IF Exists(coll, id) /\ coll[id].userId = userId THEN id ELSE 0

(* Model.findOne({_id}) *)
findById(coll, id) == IF Exists(coll, id) THEN id ELSE 0

VersionsOf(vs, promptId) == {i \in 1..Len(vs) : vs[i].promptId = promptId}

(* the unique partial index {promptId, activePrompt} where activePrompt    *)
(* is true: at most one document per promptId has activePrompt = true      *)
UniqueActivePrompt_off(vs) == TRUE

UniqueActivePrompt(vs) ==
  \A i, j \in 1..Len(vs) :
    (i # j /\ vs[i].activePrompt /\ vs[j].activePrompt)
      => vs[i].promptId # vs[j].promptId

(* ------------------------------ requests ------------------------------- *)
Restrict(f, S) == [k \in S |-> f[k]]
Has(body, k) == k \in DOMAIN body

(* request bodies: the required field alone or with optional fields, and   *)
(* for updates no field or a single field, which may be one the handler    *)
(* does not recognise                                                      *)
NoBody == Restrict([name |-> <<>>], {})

ProjectBodies ==
  {[name |-> n] : n \in RawNames}
  \cup {[name |-> n, isActive |-> b] : n \in RawNames, b \in BOOLEAN}

UpdateProjectBodies ==
  {NoBody}
  \cup {[name |-> n] : n \in RawNames}
  \cup {[isActive |-> b] : b \in BOOLEAN}
  \cup {[userId |-> u] : u \in Users}

PromptVersionBodies ==
  {[promptText |-> t] : t \in RawTexts}
  \cup {[promptText |-> t, activePrompt |-> b] : t \in RawTexts, b \in BOOLEAN}
  \cup {[promptText |-> t, isActive |-> b] : t \in RawTexts, b \in BOOLEAN}
  \cup {[promptText |-> t, activePrompt |-> TRUE, isActive |-> FALSE] :
          t \in RawTexts}

UpdatePromptVersionBodies ==
  {NoBody}
  \cup {[promptText |-> t] : t \in RawTexts}
  \cup {[activePrompt |-> b] : b \in BOOLEAN}
  \cup {[isActive |-> b] : b \in BOOLEAN}
  \cup {[userId |-> u] : u \in Users}
  \cup {[version |-> versionLabel(0)], [versionName |-> versionNameLabel(0)]}

NoRes == [success |-> FALSE, status |-> 0, message |-> "", data |-> 0]
Idle ==
  [pc |-> "idle", op |-> "", userId |-> "", id |-> 0, body |-> NoBody,
   local |-> 0, res |-> NoRes]

InFlight(p) == req[p].pc \notin {"idle", "done"}

(* A handler that has settled sends its response in the same turn of the   *)
(* event loop: no database call of another request runs in between.        *)
NoPendingResponse == \A q \in Procs : req[q].pc # "done"

(* a new request may start on a free connection; in a serial run only     *)
(* when no other request is in flight                                     *)
CanStart(p) ==
  /\ NoPendingResponse
  /\ req[p].pc = "idle"
  /\ budget > 0
  /\ serial => \A q \in Procs : ~InFlight(q)

(* the request of p is suspended at the await labelled pc *)
At(p, op, pc) ==
  /\ NoPendingResponse
  /\ req[p].op = op
  /\ req[p].pc = pc

Begin(p, op, userId, id, body, pc, local, res) ==
  /\ req' = [req EXCEPT ![p] =
       [pc |-> pc, op |-> op, userId |-> userId, id |-> id, body |-> body,
        local |-> local, res |-> res]]
  /\ budget' = budget - 1

Goto(p, pc, local) ==
  /\ req' = [req EXCEPT ![p].pc = pc, ![p].local = local]
  /\ UNCHANGED budget

Return(p, res) ==
  /\ req' = [req EXCEPT ![p].pc = "done", ![p].res = res]
  /\ UNCHANGED budget

Throw(p, err) == Return(p, errorHandler(err))

(* history: the outcome of the last request of p that asked for            *)
(* activePrompt = true and got as far as its write                         *)
NoActivation == [promptId |-> 0, target |-> 0, status |-> 0]

Activated(p, body, promptId, target, res) ==
  activations' =
    IF Has(body, "activePrompt") /\ body.activePrompt
    THEN [activations EXCEPT ![p] =
            [promptId |-> promptId, target |-> target, status |-> res.status]]
    ELSE activations

(* history: for the request of p in flight, had = it asked for            *)
(* activePrompt = true and its prompt had a live active version when it    *)
(* began; missed = a getActivePromptVersion of that prompt has found no    *)
(* active version since then                                               *)
NoWindow == [had |-> FALSE, missed |-> FALSE]

HasLiveActive(vs, promptId) ==
  \E i \in VersionsOf(vs, promptId) : vs[i].activePrompt /\ vs[i].isActive

Opens(p, body, hadActive) ==
  window' = [window EXCEPT ![p] =
               [had |-> Has(body, "activePrompt") /\ body.activePrompt
                        /\ hadActive,
                missed |-> FALSE]]

(* the prompt whose versions the request of p writes *)
TargetPrompt(p) ==
  IF req[p].op = "createPromptVersion" THEN req[p].id ELSE req[p].local

Misses(q, promptId, found) ==
  window' = [p \in Procs |->
               IF /\ p # q
                  /\ window[p].had
                  /\ InFlight(p)
                  /\ TargetPrompt(p) = promptId
                  /\ found = 0
               THEN [window[p] EXCEPT !.missed = TRUE]
               ELSE window[p]]

(* res.status(...).json(...): the response leaves, the connection is free *)
respond(p) ==
  /\ req[p].pc = "done"
  /\ req' = [req EXCEPT ![p] = Idle]
  /\ window' = [window EXCEPT ![p] = NoWindow]
  /\ UNCHANGED <<db, budget, serial, authReq, identity, http, orphaned,
                 activations>>

(* ======================= projectService.ts ============================= *)
newProject(userId, body) ==
  [userId |-> userId, name |-> trim(body.name),
   isActive |-> IF Has(body, "isActive") THEN body.isActive
                ELSE DEFAULT_IS_ACTIVE]

createProject(p) ==
  \E userId \in Users, body \in ProjectBodies :
    /\ CanStart(p)
    /\ Len(projects) < MaxProjects
    /\ projects' = Append(projects, newProject(userId, body))
    /\ Begin(p, "createProject", userId, Len(projects) + 1, body, "done", 0,
             sendCreated(Len(projects) + 1))
    /\ UNCHANGED <<prompts, versions, serial, authReq, identity, http, orphaned, activations, window>>

lookupActive_nocheck(coll, id, userId, notFound, deleted) ==
  IF findOwned(coll, id, userId) = 0
  THEN errorHandler(ApiError(HTTP_NOT_FOUND, notFound))
  ELSE sendSuccess(id, HTTP_OK)

(* outcome of findOne(filter) followed by the isActive test *)
lookupActive(coll, id, userId, notFound, deleted) ==
  IF findOwned(coll, id, userId) = 0
  THEN errorHandler(ApiError(HTTP_NOT_FOUND, notFound))
  ELSE IF ~coll[id].isActive
       THEN errorHandler(ApiError(HTTP_NOT_FOUND, deleted))
       ELSE sendSuccess(id, HTTP_OK)

getProjectById(p) ==
  \E userId \in Users, id \in ProjectIds :
    /\ CanStart(p)
    /\ Begin(p, "getProjectById", userId, id, NoBody, "done", 0,
             lookupActive(projects, id, userId, PROJECT_NOT_FOUND,
                          PROJECT_DELETED))
    /\ UNCHANGED <<db, serial, authReq, identity, http, orphaned, activations, window>>

(* updateFields built from the request body: only name and isActive are   *)
(* copied, and name is trimmed                                             *)
updateFields_all(body) ==
  [k \in DOMAIN body |-> IF k = "name" THEN trim(body[k]) ELSE body[k]]

updateFields(body) ==
  [k \in DOMAIN body \cap {"name", "isActive"} |->
     IF k = "name" THEN trim(body[k]) ELSE body[k]]

(* Object.keys(updateFields).length === 0 *)
noValidFields_never(fields) == FALSE

noValidFields(fields) == DOMAIN fields = {}

(* { $set: fields } applied to one document *)
applySet(doc, fields) ==
  [k \in DOMAIN doc |-> IF k \in DOMAIN fields THEN fields[k] ELSE doc[k]]

setDoc(coll, id, fields) == [coll EXCEPT ![id] = applySet(coll[id], fields)]

updateProject_find(p) ==
  \E userId \in Users, id \in ProjectIds, body \in UpdateProjectBodies :
    /\ CanStart(p)
    /\ IF findOwned(projects, id, userId) = 0
       THEN Begin(p, "updateProject", userId, id, body, "done", 0,
                  errorHandler(ApiError(HTTP_NOT_FOUND, PROJECT_NOT_FOUND)))
       ELSE IF noValidFields(updateFields(body))
            THEN Begin(p, "updateProject", userId, id, body, "done", 0,
                       errorHandler(ApiError(HTTP_BAD_REQUEST,
                                             NO_VALID_FIELDS_TO_UPDATE)))
            ELSE Begin(p, "updateProject", userId, id, body, "write", 0, NoRes)
    /\ UNCHANGED <<db, serial, authReq, identity, http, orphaned, activations, window>>

updateProject_write(p) ==
  /\ At(p, "updateProject", "write")
  /\ IF findOwned(projects, req[p].id, req[p].userId) = 0
     THEN /\ Throw(p, ApiError(HTTP_NOT_FOUND, PROJECT_NOT_FOUND))
          /\ UNCHANGED projects
     ELSE /\ projects' = setDoc(projects, req[p].id, updateFields(req[p].body))
          /\ Return(p, sendSuccess(req[p].id, HTTP_OK))
  /\ UNCHANGED <<prompts, versions, serial, authReq, identity, http, orphaned, activations, window>>

(* findOneAndUpdate({_id, userId}, {$set: {isActive: false}}) *)
softDelete_anyOwner(coll, id, userId) ==
  IF findById(coll, id) = 0 THEN coll
  ELSE setDoc(coll, id, [isActive |-> FALSE])

softDelete(coll, id, userId) ==
  IF findOwned(coll, id, userId) = 0 THEN coll
  ELSE setDoc(coll, id, [isActive |-> FALSE])

deleteResult(coll, id, userId, notFound) ==
  IF findOwned(coll, id, userId) = 0
  THEN errorHandler(ApiError(HTTP_NOT_FOUND, notFound))
  ELSE sendSuccess(id, HTTP_OK)

deleteProject(p) ==
  \E userId \in Users, id \in ProjectIds :
    /\ CanStart(p)
    /\ projects' = softDelete(projects, id, userId)
    /\ Begin(p, "deleteProject", userId, id, NoBody, "done", 0,
             deleteResult(projects, id, userId, PROJECT_NOT_FOUND))
    /\ UNCHANGED <<prompts, versions, serial, authReq, identity, http, orphaned, activations, window>>

(* ======================== promptService.ts ============================= *)
(* validateProjectExists(projectId, userId): "" when the project passes *)
validateProjectExists(projectId, userId) ==
  IF findOwned(projects, projectId, userId) = 0 THEN PROJECT_NOT_FOUND
  ELSE IF ~projects[projectId].isActive THEN PROJECT_DELETED
       ELSE ""

newPrompt(userId, projectId, body) ==
  [userId |-> userId, projectId |-> projectId, name |-> trim(body.name),
   isActive |-> IF Has(body, "isActive") THEN body.isActive
                ELSE DEFAULT_IS_ACTIVE]

PendingInserts(op) == Cardinality({q \in Procs : InFlight(q) /\ req[q].op = op})

createPrompt_validate(p) ==
  \E userId \in Users, projectId \in ProjectIds, body \in ProjectBodies :
    /\ CanStart(p)
    /\ Len(prompts) + PendingInserts("createPrompt") < MaxPrompts
    /\ LET msg == validateProjectExists(projectId, userId)
       IN IF msg # ""
          THEN Begin(p, "createPrompt", userId, projectId, body, "done", 0,
                     errorHandler(ApiError(HTTP_NOT_FOUND, msg)))
          ELSE Begin(p, "createPrompt", userId, projectId, body, "save", 0,
                     NoRes)
    /\ UNCHANGED <<db, serial, authReq, identity, http, orphaned, activations, window>>

createPrompt_save(p) ==
  /\ At(p, "createPrompt", "save")
  /\ prompts' = Append(prompts, newPrompt(req[p].userId, req[p].id, req[p].body))
  /\ Return(p, sendCreated(Len(prompts) + 1))
  /\ UNCHANGED <<projects, versions, serial, authReq, identity, http, orphaned, activations, window>>

getPromptById(p) ==
  \E userId \in Users, id \in PromptIds :
    /\ CanStart(p)
    /\ Begin(p, "getPromptById", userId, id, NoBody, "done", 0,
             lookupActive(prompts, id, userId, PROMPT_NOT_FOUND,
                          PROMPT_DELETED))
    /\ UNCHANGED <<db, serial, authReq, identity, http, orphaned, activations, window>>

updatePrompt_find(p) ==
  \E userId \in Users, id \in PromptIds, body \in UpdateProjectBodies :
    /\ CanStart(p)
    /\ IF findOwned(prompts, id, userId) = 0
       THEN Begin(p, "updatePrompt", userId, id, body, "done", 0,
                  errorHandler(ApiError(HTTP_NOT_FOUND, PROMPT_NOT_FOUND)))
       ELSE IF noValidFields(updateFields(body))
            THEN Begin(p, "updatePrompt", userId, id, body, "done", 0,
                       errorHandler(ApiError(HTTP_BAD_REQUEST,
                                             NO_VALID_FIELDS_TO_UPDATE)))
            ELSE Begin(p, "updatePrompt", userId, id, body, "write", 0, NoRes)
    /\ UNCHANGED <<db, serial, authReq, identity, http, orphaned, activations, window>>

updatePrompt_write(p) ==
  /\ At(p, "updatePrompt", "write")
  /\ IF findOwned(prompts, req[p].id, req[p].userId) = 0
     THEN /\ Throw(p, ApiError(HTTP_NOT_FOUND, PROMPT_NOT_FOUND))
          /\ UNCHANGED prompts
     ELSE /\ prompts' = setDoc(prompts, req[p].id, updateFields(req[p].body))
          /\ Return(p, sendSuccess(req[p].id, HTTP_OK))
  /\ UNCHANGED <<projects, versions, serial, authReq, identity, http, orphaned, activations, window>>

deletePrompt(p) ==
  \E userId \in Users, id \in PromptIds :
    /\ CanStart(p)
    /\ prompts' = softDelete(prompts, id, userId)
    /\ Begin(p, "deletePrompt", userId, id, NoBody, "done", 0,
             deleteResult(prompts, id, userId, PROMPT_NOT_FOUND))
    /\ UNCHANGED <<projects, versions, serial, authReq, identity, http, orphaned, activations, window>>

(* ===================== promptVersionService.ts ========================= *)
(* updateMany({promptId, activePrompt: true, userId, _id: {$ne: exclude}},  *)
(*            {$set: {activePrompt: false}}); exclude = 0 when not given.   *)
(* The unique index leaves at most one matching document, so the update    *)
(* touches at most one document and is a single atomic write.              *)
deactivateOtherVersions_anyPrompt(vs, promptId, excludeVersionId, userId) ==
  [i \in 1..Len(vs) |->
     IF vs[i].activePrompt /\ vs[i].userId = userId /\ i # excludeVersionId
     THEN [vs[i] EXCEPT !.activePrompt = FALSE]
     ELSE vs[i]]

deactivateOtherVersions(vs, promptId, excludeVersionId, userId) ==
  [i \in 1..Len(vs) |->
     IF /\ vs[i].promptId = promptId
        /\ vs[i].activePrompt
        /\ vs[i].userId = userId
        /\ i # excludeVersionId
     THEN [vs[i] EXCEPT !.activePrompt = FALSE]
     ELSE vs[i]]

validatePromptExists_anyOwner(promptId, userId) ==
  IF ~Exists(prompts, promptId) THEN PROMPT_NOT_FOUND
  ELSE IF ~prompts[promptId].isActive THEN PROMPT_DELETED
       ELSE ""

validatePromptExists_nodeleted(promptId, userId) ==
  IF ~Exists(prompts, promptId) THEN PROMPT_NOT_FOUND
  ELSE IF userId # "" /\ prompts[promptId].userId # userId
       THEN PROMPT_NOT_FOUND
       ELSE ""

(* "" when the prompt passes; userId = "" is the public call without owner *)
validatePromptExists(promptId, userId) ==
  IF ~Exists(prompts, promptId) THEN PROMPT_NOT_FOUND
  ELSE IF userId # "" /\ prompts[promptId].userId # userId
       THEN PROMPT_NOT_FOUND
       ELSE IF ~prompts[promptId].isActive THEN PROMPT_DELETED
            ELSE ""

(* PromptVersion.countDocuments({promptId, userId}) *)
countDocuments_live(vs, promptId, userId) ==
  Cardinality({i \in 1..Len(vs) :
                 vs[i].promptId = promptId /\ vs[i].userId = userId
                 /\ vs[i].isActive})

countDocuments(vs, promptId, userId) ==
  Cardinality({i \in 1..Len(vs) :
                 vs[i].promptId = promptId /\ vs[i].userId = userId})

newPromptVersion(userId, promptId, body, nextVersionNumber) ==
  [userId |-> userId, promptId |-> promptId,
   promptText |-> trim(body.promptText),
   version |-> versionLabel(nextVersionNumber),
   versionName |-> versionNameLabel(nextVersionNumber),
   activePrompt |-> IF Has(body, "activePrompt") THEN body.activePrompt
                    ELSE DEFAULT_ACTIVE_PROMPT,
   isActive |-> IF Has(body, "isActive") THEN body.isActive
                ELSE DEFAULT_IS_ACTIVE]

(* body.activePrompt === true *)
WantsActive(body) == Has(body, "activePrompt") /\ body.activePrompt

createPromptVersion_validate(p) ==
  \E userId \in Users, promptId \in PromptIds, body \in PromptVersionBodies :
    /\ CanStart(p)
    /\ Len(versions) + PendingInserts("createPromptVersion") < MaxVersions
    /\ LET msg == validatePromptExists(promptId, userId)
       IN IF msg # ""
          THEN Begin(p, "createPromptVersion", userId, promptId, body, "done",
                     0, errorHandler(ApiError(HTTP_NOT_FOUND, msg)))
          ELSE Begin(p, "createPromptVersion", userId, promptId, body, "count",
                     0, NoRes)
    /\ Opens(p, body, /\ validatePromptExists(promptId, userId) = ""
                      /\ HasLiveActive(versions, promptId))
    /\ UNCHANGED <<db, serial, authReq, identity, http, orphaned, activations>>

createPromptVersion_count(p) ==
  /\ At(p, "createPromptVersion", "count")
  /\ Goto(p, IF WantsActive(req[p].body) THEN "deactivate" ELSE "save",
          countDocuments(versions, req[p].id, req[p].userId) + 1)
  /\ UNCHANGED <<db, serial, authReq, identity, http, orphaned, activations, window>>

createPromptVersion_deactivate(p) ==
  /\ At(p, "createPromptVersion", "deactivate")
  /\ versions' = deactivateOtherVersions(versions, req[p].id, 0, req[p].userId)
  /\ Goto(p, "save", req[p].local)
  /\ UNCHANGED <<projects, prompts, serial, authReq, identity, http, orphaned, activations, window>>

createPromptVersion_save(p) ==
  /\ At(p, "createPromptVersion", "save")
  /\ LET doc == newPromptVersion(req[p].userId, req[p].id, req[p].body,
                                 req[p].local)
         after == Append(versions, doc)
     IN IF UniqueActivePrompt(after)
        THEN /\ versions' = after
             /\ Return(p, sendCreated(Len(after)))
             /\ orphaned' = IF doc.activePrompt THEN orphaned \ {req[p].id}
                            ELSE orphaned
             /\ Activated(p, req[p].body, req[p].id, Len(after),
                          sendCreated(Len(after)))
        ELSE /\ Throw(p, MongoServerError("promptId"))
             /\ Activated(p, req[p].body, req[p].id, Len(after),
                          errorHandler(MongoServerError("promptId")))
             /\ UNCHANGED <<versions, orphaned>>
  /\ UNCHANGED <<projects, prompts, serial, authReq, identity, http, window>>

(* findOne({promptId, activePrompt: true, isActive: true}): 0 when none *)
findActiveVersion_anyState(vs, promptId) ==
  LET m == {i \in VersionsOf(vs, promptId) : vs[i].activePrompt}
  IN IF m = {} THEN 0 ELSE CHOOSE i \in m : \A j \in m : i <= j

findActiveVersion(vs, promptId) ==
  LET m == {i \in VersionsOf(vs, promptId) :
              vs[i].activePrompt /\ vs[i].isActive}
  IN IF m = {} THEN 0 ELSE CHOOSE i \in m : \A j \in m : i <= j

getActivePromptVersion_validate(p) ==
  \E promptId \in PromptIds :
    /\ CanStart(p)
    /\ LET msg == validatePromptExists(promptId, "")
       IN IF msg # ""
          THEN Begin(p, "getActivePromptVersion", "", promptId, NoBody, "done",
                     0, errorHandler(ApiError(HTTP_NOT_FOUND, msg)))
          ELSE Begin(p, "getActivePromptVersion", "", promptId, NoBody, "find",
                     0, NoRes)
    /\ UNCHANGED <<db, serial, authReq, identity, http, orphaned, activations, window>>

getActivePromptVersion_find(p) ==
  /\ At(p, "getActivePromptVersion", "find")
  /\ LET v == findActiveVersion(versions, req[p].id)
     IN IF v = 0
        THEN Throw(p, ApiError(HTTP_NOT_FOUND, NO_ACTIVE_VERSION_FOUND))
        ELSE Return(p, sendSuccess(v, HTTP_OK))
  /\ Misses(p, req[p].id, findActiveVersion(versions, req[p].id))
  /\ UNCHANGED <<db, serial, authReq, identity, http, orphaned, activations>>

getPromptVersionById(p) ==
  \E userId \in Users, id \in VersionIds :
    /\ CanStart(p)
    /\ Begin(p, "getPromptVersionById", userId, id, NoBody, "done", 0,
             lookupActive(versions, id, userId, PROMPT_VERSION_NOT_FOUND,
                          PROMPT_VERSION_DELETED))
    /\ UNCHANGED <<db, serial, authReq, identity, http, orphaned, activations, window>>

(* updateFields of updatePromptVersion: only promptText, activePrompt and *)
(* isActive are copied, and promptText is trimmed                          *)
versionUpdateFields_all(body) ==
  [k \in DOMAIN body |-> IF k = "promptText" THEN trim(body[k]) ELSE body[k]]

versionUpdateFields(body) ==
  [k \in DOMAIN body \cap {"promptText", "activePrompt", "isActive"} |->
     IF k = "promptText" THEN trim(body[k]) ELSE body[k]]

updatePromptVersion_find(p) ==
  \E userId \in Users, id \in VersionIds, body \in UpdatePromptVersionBodies :
    /\ CanStart(p)
    /\ IF findOwned(versions, id, userId) = 0
       THEN Begin(p, "updatePromptVersion", userId, id, body, "done", 0,
                  errorHandler(ApiError(HTTP_NOT_FOUND,
                                        PROMPT_VERSION_NOT_FOUND)))
       ELSE IF WantsActive(body)
            THEN Begin(p, "updatePromptVersion", userId, id, body,
                       "deactivate", versions[id].promptId, NoRes)
            ELSE IF noValidFields(versionUpdateFields(body))
                 THEN Begin(p, "updatePromptVersion", userId, id, body, "done",
                            0, errorHandler(ApiError(HTTP_BAD_REQUEST,
                                              NO_VALID_FIELDS_TO_UPDATE)))
                 ELSE Begin(p, "updatePromptVersion", userId, id, body,
                            "write", versions[id].promptId, NoRes)
    /\ Opens(p, body, /\ findOwned(versions, id, userId) # 0
                      /\ HasLiveActive(versions, versions[id].promptId))
    /\ UNCHANGED <<db, serial, authReq, identity, http, orphaned, activations>>

updatePromptVersion_deactivate(p) ==
  /\ At(p, "updatePromptVersion", "deactivate")
  /\ versions' = deactivateOtherVersions(versions, req[p].local, req[p].id,
                                         req[p].userId)
  /\ Goto(p, "write", req[p].local)
  /\ UNCHANGED <<projects, prompts, serial, authReq, identity, http, orphaned, activations, window>>

updatePromptVersion_write(p) ==
  /\ At(p, "updatePromptVersion", "write")
  /\ IF findOwned(versions, req[p].id, req[p].userId) = 0
     THEN /\ Throw(p, ApiError(HTTP_NOT_FOUND, PROMPT_VERSION_NOT_FOUND))
          /\ UNCHANGED <<versions, orphaned, activations, window>>
     ELSE LET after == setDoc(versions, req[p].id,
                              versionUpdateFields(req[p].body))
          IN IF UniqueActivePrompt(after)
             THEN /\ versions' = after
                  /\ Return(p, sendSuccess(req[p].id, HTTP_OK))
                  /\ orphaned' = IF WantsActive(req[p].body)
                                 THEN orphaned \ {req[p].local}
                                 ELSE orphaned
                  /\ Activated(p, req[p].body, req[p].local, req[p].id,
                               sendSuccess(req[p].id, HTTP_OK))
             ELSE /\ Throw(p, MongoServerError("promptId"))
                  /\ Activated(p, req[p].body, req[p].local, req[p].id,
                               errorHandler(MongoServerError("promptId")))
                  /\ UNCHANGED <<versions, orphaned>>
  /\ UNCHANGED <<projects, prompts, serial, authReq, identity, http, window>>

deletePromptVersion(p) ==
  \E userId \in Users, id \in VersionIds :
    /\ CanStart(p)
    /\ versions' = softDelete(versions, id, userId)
    /\ Begin(p, "deletePromptVersion", userId, id, NoBody, "done", 0,
             deleteResult(versions, id, userId, PROMPT_VERSION_NOT_FOUND))
    /\ orphaned' =
         IF /\ findOwned(versions, id, userId) # 0
            /\ versions[id].activePrompt /\ versions[id].isActive
         THEN orphaned \cup {versions[id].promptId}
         ELSE orphaned
    /\ UNCHANGED <<projects, prompts, serial, authReq, identity, http, activations, window>>

(* ============================ HTTP layer =============================== *)
(* One HTTP request travelling through the Express application: the layers *)
(* registered on app in registration order, the routers mounted there, the *)
(* authenticate middleware, the controller, the error handler.             *)
HTTP_UNAUTHORIZED == 401
AUTH_REQUIRED == "Authentication required. Please provide a valid token."
TOKEN_EXPIRED == "Token has expired. Please login again."
INVALID_TOKEN == "Invalid token. Please login again."
TOKEN_VERIFICATION_FAILED == "Token verification failed"
JWT_SECRET_NOT_CONFIGURED == "JWT secret is not configured"
ROUTE_NOT_FOUND(url) == <<"Route ", url, " not found">>
INVALID_FORMAT(fieldName) == <<"Invalid ", fieldName, " format">>

(* process.env.JWT_SECRET: unset, or the key this deployment signs with *)
NoSecret == ""
JwtSecrets == {NoSecret, "k1"}
SigningKeys == {"k1", "k2"}

(* what follows "Bearer " in the header: nothing, text that is no JWT, or  *)
(* a JWT signed with some key, expired or not, carrying a user id          *)
EmptyToken == [raw |-> "", signedWith |-> "", expired |-> FALSE, userId |-> ""]
JunkToken ==
  [raw |-> "junk", signedWith |-> "", expired |-> FALSE, userId |-> ""]
Jwt(key, expired, userId) ==
  [raw |-> "jwt", signedWith |-> key, expired |-> expired, userId |-> userId]
Tokens ==
  {EmptyToken, JunkToken}
  \cup {Jwt(k, e, u) : k \in SigningKeys, e \in BOOLEAN, u \in Users}

(* req.headers.authorization: its first seven characters and the rest *)
NoHeader == [present |-> FALSE, scheme |-> "", rest |-> EmptyToken]
Authorization(scheme, token) ==
  [present |-> TRUE, scheme |-> scheme, rest |-> token]
Headers ==
  {NoHeader}
  \cup {Authorization("Bearer ", t) : t \in Tokens}
  \cup {Authorization("Token  ", Jwt("k1", FALSE, "A"))}

(* jwt.verify(token, secret): the signature is checked before the expiry *)
jwt_verify(token, secret) ==
  IF token.raw # "jwt" \/ token.signedWith # secret THEN "JsonWebTokenError"
  ELSE IF token.expired THEN "TokenExpiredError"
       ELSE "ok"

NoUser == ""
Passed(userId) == [ok |-> TRUE, user |-> userId, err |-> ApiError(0, "")]
Refuse(code, message) ==
  [ok |-> FALSE, user |-> NoUser, err |-> ApiError(code, message)]

authenticate_noexpiry(authHeader, secret) ==
  IF ~authHeader.present \/ authHeader.scheme # "Bearer "
  THEN Refuse(HTTP_UNAUTHORIZED, AUTH_REQUIRED)
  ELSE IF authHeader.rest.raw = ""
  THEN Refuse(HTTP_UNAUTHORIZED, AUTH_REQUIRED)
  ELSE IF secret = NoSecret
  THEN Refuse(HTTP_INTERNAL_SERVER_ERROR, JWT_SECRET_NOT_CONFIGURED)
  ELSE IF jwt_verify(authHeader.rest, secret) \in {"ok", "TokenExpiredError"}
  THEN Passed(authHeader.rest.userId)
  ELSE Refuse(HTTP_UNAUTHORIZED, INVALID_TOKEN)

(* authenticate(req, res, next): next() with req.user set, or next(error) *)
authenticate(authHeader, secret) ==
  IF ~authHeader.present \/ authHeader.scheme # "Bearer "
  THEN Refuse(HTTP_UNAUTHORIZED, AUTH_REQUIRED)
  ELSE IF authHeader.rest.raw = ""
  THEN Refuse(HTTP_UNAUTHORIZED, AUTH_REQUIRED)
  ELSE IF secret = NoSecret
  THEN Refuse(HTTP_INTERNAL_SERVER_ERROR, JWT_SECRET_NOT_CONFIGURED)
  ELSE LET verdict == jwt_verify(authHeader.rest, secret)
       IN IF verdict = "ok" THEN Passed(authHeader.rest.userId)
          ELSE IF verdict = "TokenExpiredError"
          THEN Refuse(HTTP_UNAUTHORIZED, TOKEN_EXPIRED)
          ELSE IF verdict = "JsonWebTokenError"
          THEN Refuse(HTTP_UNAUTHORIZED, INVALID_TOKEN)
          ELSE Refuse(HTTP_UNAUTHORIZED, TOKEN_VERIFICATION_FAILED)

(* --------------------------- routing tables ---------------------------- *)
(* A path is its sequence of segments; ":name" in a pattern is a parameter *)
Methods == {"GET", "POST", "PUT", "DELETE"}
IsParam(seg) == seg \in {":id", ":projectId", ":promptId"}

(* mongoose.Types.ObjectId.isValid: the segments that are ids, and the     *)
(* document each one names                                                 *)
ObjectIdValid(seg) == seg \in {"1", "2"}
IdOf(seg) == IF seg = "1" THEN 1 ELSE IF seg = "2" THEN 2 ELSE 0

Route(method, pattern, middleware, handler) ==
  [method |-> method, pattern |-> pattern, middleware |-> middleware,
   handler |-> handler]

authRoutes ==
  << Route("POST", <<"signup">>, <<>>, "signup"),
     Route("POST", <<"login">>, <<>>, "login"),
     Route("GET", <<"getUserDetails">>, <<"authenticate">>,
           "getUserDetails") >>

projectRoutes ==
  << Route("POST", <<"create">>, <<>>, "createProject"),
     Route("GET", <<>>, <<>>, "getProjects"),
     Route("GET", <<":id">>, <<>>, "getProjectById"),
     Route("PUT", <<":id">>, <<>>, "updateProject"),
     Route("DELETE", <<":id">>, <<>>, "deleteProject") >>

promptRoutes ==
  << Route("POST", <<"projects", ":projectId", "prompt", "create">>, <<>>,
           "createPrompt"),
     Route("GET", <<"projects", ":projectId", "prompts">>, <<>>,
           "getPromptsByProject"),
     Route("GET", <<"prompt", ":id">>, <<>>, "getPromptById"),
     Route("PUT", <<"prompt", ":id">>, <<>>, "updatePrompt"),
     Route("DELETE", <<"prompt", ":id">>, <<>>, "deletePrompt") >>

promptVersionRoutes ==
  << Route("POST", <<"prompts", ":promptId", "version", "create">>, <<>>,
           "createPromptVersion"),
     Route("GET", <<"prompts", ":promptId", "active">>, <<>>,
           "getActivePromptVersion"),
     Route("GET", <<"prompts", ":promptId", "versions">>, <<>>,
           "getPromptVersionsByPrompt"),
     Route("GET", <<"prompt-versions", ":id">>, <<>>, "getPromptVersionById"),
     Route("PUT", <<"prompt-versions", ":id">>, <<>>, "updatePromptVersion"),
     Route("DELETE", <<"prompt-versions", ":id">>, <<>>,
           "deletePromptVersion") >>

Routers ==
  [authRoutes |-> authRoutes, projectRoutes |-> projectRoutes,
   promptRoutes |-> promptRoutes, promptVersionRoutes |-> promptVersionRoutes]

(* router.use(...): the middleware a router runs on every request it       *)
(* receives, before it looks for a route                                   *)
routerMiddleware(router) ==
  IF router \in {"projectRoutes", "promptRoutes", "promptVersionRoutes"}
  THEN <<"authenticate">>
  ELSE <<>>

(* router.param(name, validator) *)
routerParams(router) ==
  IF router = "projectRoutes" THEN {<<":id", "validateProjectId">>}
  ELSE IF router = "promptRoutes"
  THEN {<<":projectId", "validateProjectId">>, <<":id", "validatePromptId">>}
  ELSE IF router = "promptVersionRoutes"
  THEN {<<":promptId", "validatePromptId">>,
        <<":id", "validatePromptVersionId">>}
  ELSE {}

(* the request parameter a validator reads, and how it names it *)
validatorReads(validator) ==
  IF validator = "validateProjectId" THEN ":projectId" ELSE ":id"
validatorField(validator) ==
  IF validator = "validateProjectId" THEN "Project ID"
  ELSE IF validator = "validatePromptId" THEN "Prompt ID"
  ELSE "Prompt Version ID"

Layer(kind, method, path, middleware, name) ==
  [kind |-> kind, method |-> method, path |-> path,
   middleware |-> middleware, name |-> name]

(* the public route registered after the routers instead of before them *)
appLayers_publicLast ==
  << Layer("use", "", <<"api", "auth">>, <<>>, "authRoutes"),
     Layer("use", "", <<"api", "project">>, <<>>, "projectRoutes"),
     Layer("use", "", <<"api">>, <<>>, "promptRoutes"),
     Layer("use", "", <<"api">>, <<>>, "promptVersionRoutes"),
     Layer("route", "GET", <<"api", "prompts", ":promptId", "active">>,
           <<"validatePromptId">>, "getActivePromptVersion"),
     Layer("route", "GET", <<>>, <<>>, "root"),
     Layer("route", "GET", <<"health">>, <<>>, "health"),
     Layer("notFound", "", <<>>, <<>>, "notFoundHandler") >>

(* app.use / app.get in registration order, down to the 404 handler *)
appLayers ==
  << Layer("use", "", <<"api", "auth">>, <<>>, "authRoutes"),
     Layer("route", "GET", <<"api", "prompts", ":promptId", "active">>,
           <<"validatePromptId">>, "getActivePromptVersion"),
     Layer("use", "", <<"api", "project">>, <<>>, "projectRoutes"),
     Layer("use", "", <<"api">>, <<>>, "promptRoutes"),
     Layer("use", "", <<"api">>, <<>>, "promptVersionRoutes"),
     Layer("route", "GET", <<>>, <<>>, "root"),
     Layer("route", "GET", <<"health">>, <<>>, "health"),
     Layer("notFound", "", <<>>, <<>>, "notFoundHandler") >>

(* path-to-regexp *)
MatchesPattern(pattern, path) ==
  /\ Len(pattern) = Len(path)
  /\ \A i \in 1..Len(pattern) : IsParam(pattern[i]) \/ pattern[i] = path[i]

MountedAt(mount, path) ==
  /\ Len(mount) <= Len(path)
  /\ \A i \in 1..Len(mount) : mount[i] = path[i]

StripMount(mount, path) == SubSeq(path, Len(mount) + 1, Len(path))

(* req.params of a matched pattern; "" for a parameter it does not have *)
ParamOf(pattern, path, name) ==
  LET at == {i \in 1..Len(pattern) : pattern[i] = name}
  IN IF at = {} THEN "" ELSE path[CHOOSE i \in at : TRUE]

(* the first route of a router that matches, 0 when none does *)
matchRoute(routes, method, path) ==
  LET m == {i \in 1..Len(routes) :
              /\ routes[i].method = method
              /\ MatchesPattern(routes[i].pattern, path)}
  IN IF m = {} THEN 0 ELSE CHOOSE i \in m : \A j \in m : i <= j

(* validateObjectId as called by the validators that run for a matched    *)
(* pattern: the set of messages thrown                                     *)
validateParams(validators, pattern, path) ==
  {INVALID_FORMAT(validatorField(v)) : v \in
     {w \in validators :
        /\ ParamOf(pattern, path, validatorReads(w)) # ""
        /\ ~ObjectIdValid(ParamOf(pattern, path, validatorReads(w)))}}

(* the validators router.param attaches to a matched pattern *)
paramValidators(router, pattern) ==
  {pv[2] : pv \in {q \in routerParams(router) :
                     \E i \in 1..Len(pattern) : pattern[i] = q[1]}}

(* ---------------------------- one request ------------------------------ *)
NoErr == ApiError(0, "")
NoHttp ==
  [pc |-> "none", method |-> "", path |-> <<>>, header |-> NoHeader,
   secret |-> NoSecret, layer |-> 0, router |-> "", sub |-> <<>>,
   pattern |-> <<>>, user |-> NoUser, verified |-> 0, invoked |-> "",
   err |-> NoErr, res |-> NoRes]

(* the URLs clients ask for; every id in them is a well-formed ObjectId *)
RequestPaths ==
  { <<>>, <<"health">>, <<"api", "nothing">>,
    <<"api", "auth", "login">>, <<"api", "auth", "getUserDetails">>,
    <<"api", "project">>, <<"api", "project", "create">>,
    <<"api", "project", "1">>,
    <<"api", "projects", "1", "prompt", "create">>,
    <<"api", "projects", "1", "prompts">>,
    <<"api", "prompt", "1">>,
    <<"api", "prompts", "1", "version", "create">>,
    <<"api", "prompts", "1", "versions">>,
    <<"api", "prompts", "1", "active">>,
    <<"api", "prompts", "2", "active">>,
    <<"api", "prompt-versions", "1">> }

Arrives(method, path, header, secret) ==
  [NoHttp EXCEPT !.pc = "app", !.method = method, !.path = path,
                 !.header = header, !.secret = secret, !.layer = 1]

LayerMatches(layer, method, path) ==
  IF layer.kind = "use" THEN MountedAt(layer.path, path)
  ELSE IF layer.kind = "route"
  THEN layer.method = method /\ MatchesPattern(layer.path, path)
  ELSE TRUE

CurrentLayer == appLayers[http.layer]

(* next(error): every later layer but the error handler is skipped *)
NextError(err) == http' = [http EXCEPT !.pc = "error", !.err = err]

(* a layer that does not match the request is passed over *)
app_skip ==
  /\ http.pc = "app"
  /\ ~LayerMatches(CurrentLayer, http.method, http.path)
  /\ http' = [http EXCEPT !.layer = @ + 1]
  /\ UNCHANGED <<db, req, budget, serial, authReq, identity, orphaned, activations, window>>

(* app.use(mount, router): the request enters the router *)
app_use ==
  /\ http.pc = "app"
  /\ CurrentLayer.kind = "use"
  /\ LayerMatches(CurrentLayer, http.method, http.path)
  /\ http' = [http EXCEPT
                !.pc = IF routerMiddleware(CurrentLayer.name) = <<>>
                       THEN "routes" ELSE "router",
                !.router = CurrentLayer.name,
                !.sub = StripMount(CurrentLayer.path, http.path)]
  /\ UNCHANGED <<db, req, budget, serial, authReq, identity, orphaned, activations, window>>

(* app.get(path, ...middleware, handler) *)
app_get ==
  /\ http.pc = "app"
  /\ CurrentLayer.kind = "route"
  /\ LayerMatches(CurrentLayer, http.method, http.path)
  /\ LET thrown == validateParams(
                     {CurrentLayer.middleware[i] :
                        i \in 1..Len(CurrentLayer.middleware)},
                     CurrentLayer.path, http.path)
     IN IF thrown # {}
        THEN NextError(ApiError(HTTP_BAD_REQUEST, CHOOSE m \in thrown : TRUE))
        ELSE http' = [http EXCEPT !.pc = "controller",
                                  !.invoked = CurrentLayer.name,
                                  !.pattern = CurrentLayer.path,
                                  !.sub = http.path]
  /\ UNCHANGED <<db, req, budget, serial, authReq, identity, orphaned, activations, window>>

notFoundHandler ==
  /\ http.pc = "app"
  /\ CurrentLayer.kind = "notFound"
  /\ NextError(ApiError(HTTP_NOT_FOUND, ROUTE_NOT_FOUND(http.path)))
  /\ UNCHANGED <<db, req, budget, serial, authReq, identity, orphaned, activations, window>>

(* router.use(authenticate) *)
router_use ==
  /\ http.pc = "router"
  /\ LET auth == authenticate(http.header, http.secret)
     IN IF auth.ok
        THEN http' = [http EXCEPT !.pc = "routes", !.user = auth.user,
                                  !.verified = @ + 1]
        ELSE NextError(auth.err)
  /\ UNCHANGED <<db, req, budget, serial, authReq, identity, orphaned, activations, window>>

(* no route of the router matches: the request goes on to the next layer *)
router_next ==
  /\ http.pc = "routes"
  /\ matchRoute(Routers[http.router], http.method, http.sub) = 0
  /\ http' = [http EXCEPT !.pc = "app", !.layer = @ + 1, !.router = "",
                          !.sub = <<>>]
  /\ UNCHANGED <<db, req, budget, serial, authReq, identity, orphaned, activations, window>>

(* router.METHOD(path, ...middleware, handler): the parameter validators,  *)
(* then the route's own middleware, then the controller                    *)
router_route ==
  /\ http.pc = "routes"
  /\ matchRoute(Routers[http.router], http.method, http.sub) # 0
  /\ LET route == Routers[http.router][
                    matchRoute(Routers[http.router], http.method, http.sub)]
         thrown == validateParams(paramValidators(http.router, route.pattern),
                                  route.pattern, http.sub)
         guarded == \E i \in 1..Len(route.middleware) :
                      route.middleware[i] = "authenticate"
         auth == authenticate(http.header, http.secret)
     IN IF thrown # {}
        THEN NextError(ApiError(HTTP_BAD_REQUEST, CHOOSE m \in thrown : TRUE))
        ELSE IF guarded /\ ~auth.ok
        THEN NextError(auth.err)
        ELSE http' = [http EXCEPT
                        !.pc = "controller",
                        !.invoked = route.handler,
                        !.pattern = route.pattern,
                        !.user = IF guarded THEN auth.user ELSE @,
                        !.verified = IF guarded THEN @ + 1 ELSE @]
  /\ UNCHANGED <<db, req, budget, serial, authReq, identity, orphaned, activations, window>>

(* The controller runs.  The public getActivePromptVersion and the status  *)
(* endpoints answer here; every other controller hands req.user and the    *)
(* parameters to the service operation of its name.                        *)
controller ==
  /\ http.pc = "controller"
  /\ IF http.invoked = "getActivePromptVersion"
     THEN LET promptId == IdOf(ParamOf(http.pattern, http.sub, ":promptId"))
              msg == validatePromptExists(promptId, "")
              v == findActiveVersion(versions, promptId)
          IN IF msg # "" THEN NextError(ApiError(HTTP_NOT_FOUND, msg))
             ELSE IF v = 0
             THEN NextError(ApiError(HTTP_NOT_FOUND, NO_ACTIVE_VERSION_FOUND))
             ELSE http' = [http EXCEPT !.pc = "sent",
                                       !.res = sendSuccess(v, HTTP_OK)]
     ELSE IF http.invoked \in {"root", "health"}
     THEN http' = [http EXCEPT !.pc = "sent", !.res = sendSuccess(0, HTTP_OK)]
     ELSE http' = [http EXCEPT !.pc = "service"]
  /\ UNCHANGED <<db, req, budget, serial, authReq, identity, orphaned, activations, window>>

(* app.use(errorHandler): the error becomes the response *)
errorHandler_send ==
  /\ http.pc = "error"
  /\ http' = [http EXCEPT !.pc = "sent", !.res = errorHandler(http.err)]
  /\ UNCHANGED <<db, req, budget, serial, authReq, identity, orphaned, activations, window>>

(* ============================ authService ============================== *)
(* User accounts, signup and login.  Every awaited call (User.findOne,     *)
(* user.save, user.comparePassword) is one atomic step.                    *)
MaxUsers == 2
HTTP_FORBIDDEN == 403
INVALID_EMAIL_OR_PASSWORD == "Invalid email or password"
ACCOUNT_DEACTIVATED == "Account has been deactivated"
UNABLE_TO_CREATE_ACCOUNT == "Unable to create account. Please try again."
EMAIL_INVALID == "Please provide a valid email address"

(* e-mail addresses as typed: "A" is the upper-case form of "a", " " is    *)
(* white space around the address                                          *)
RawEmails == {<<"a">>, <<"A">>, <<" ", "a">>, <<"b">>}
Passwords == {"p1", "p2"}

(* String.prototype.toLowerCase *)
toLowerCase(s) ==
  [i \in 1..Len(s) |-> IF s[i] = "A" THEN "a"
                       ELSE IF s[i] = "B" THEN "b" ELSE s[i]]

(* bcrypt: what the pre-save hook stores for a password *)
bcryptHash(password) == <<"$2a$", password>>

(* user.comparePassword(candidate) *)
comparePassword(user, candidate) == user.password = bcryptHash(candidate)

(* the _id of the n-th account created *)
UserId(n) == IF n = 1 THEN "A" ELSE IF n = 2 THEN "B" ELSE "C"

(* User.findOne({email}): 0 when no account has exactly this address *)
findUserByEmail(us, email) ==
  LET m == {i \in 1..Len(us) : us[i].email = email}
  IN IF m = {} THEN 0 ELSE CHOOSE i \in m : \A j \in m : i <= j

(* the unique index on User.email: would inserting this address break it *)
UniqueEmail_off(us, email) == FALSE

UniqueEmail(us, email) == \E i \in 1..Len(us) : us[i].email = email

(* validateRequest({email, password}): the verdicts it may give on the     *)
(* address.  An address with white space around it may be taken or         *)
(* refused.                                                                *)
validEmail(email) ==
  IF trim(email) = email THEN {TRUE} ELSE BOOLEAN

(* generateToken(userId, email): a token signed with JWT_SECRET, or the    *)
(* plain Error thrown when the secret is not configured                    *)
generateToken(userId) ==
  IF env.JWT_SECRET = NoSecret
  THEN [ok |-> FALSE, token |-> EmptyToken,
        err |-> ApiError(0, JWT_SECRET_NOT_CONFIGURED)]
  ELSE [ok |-> TRUE, token |-> Jwt(env.JWT_SECRET, FALSE, userId),
        err |-> NoErr]

(* signup's catch block: a duplicate-key error of the driver becomes the   *)
(* generic 400, any other error goes on unchanged                          *)
signupCatch_rethrow(err) == err

signupCatch(err) ==
  IF err.code = DUPLICATE_KEY_CODE
  THEN ApiError(HTTP_BAD_REQUEST, UNABLE_TO_CREATE_ACCOUNT)
  ELSE err

(* loginUser once User.findOne has answered: the error it throws before    *)
(* the password is compared, NoErr when it goes on to compare              *)
loginGate_noActiveCheck(us, found) ==
  IF found = 0
  THEN ApiError(HTTP_UNAUTHORIZED, INVALID_EMAIL_OR_PASSWORD)
  ELSE NoErr

loginGate_telling(us, found) ==
  IF found = 0 THEN ApiError(HTTP_NOT_FOUND, "User not found")
  ELSE IF ~us[found].isActive
  THEN ApiError(HTTP_FORBIDDEN, ACCOUNT_DEACTIVATED)
  ELSE NoErr

loginGate(us, found) ==
  IF found = 0
  THEN ApiError(HTTP_UNAUTHORIZED, INVALID_EMAIL_OR_PASSWORD)
  ELSE IF ~us[found].isActive
  THEN ApiError(HTTP_FORBIDDEN, ACCOUNT_DEACTIVATED)
  ELSE NoErr

NoUserDoc == [email |-> <<>>, password |-> <<>>, isActive |-> FALSE]
AuthIdle ==
  [pc |-> "idle", op |-> "", email |-> <<>>, password |-> "", found |-> 0,
   user |-> NoUserDoc, token |-> EmptyToken, res |-> NoRes]

AuthBegin(p, op, email, password, pc, found, res) ==
  authReq' = [authReq EXCEPT ![p] =
             [pc |-> pc, op |-> op, email |-> email, password |-> password,
              found |-> found,
              user |-> IF found = 0 THEN NoUserDoc ELSE users[found],
              token |-> EmptyToken, res |-> res]]

AuthDone(p, res) == authReq' = [authReq EXCEPT ![p].pc = "done", ![p].res = res]

(* the response that carries the account and its new token *)
AuthIssued(p, id, token, statusCode) ==
  authReq' = [authReq EXCEPT ![p].pc = "done", ![p].found = id,
                       ![p].token = token,
                       ![p].res = sendSuccess(id, statusCode)]

SigningUp == {p \in Procs : authReq[p].op = "signup" /\ authReq[p].pc = "save"}

(* ------------------------------ signup --------------------------------- *)
(* validateRequest, then User.findOne({email: email.toLowerCase()}) *)
signup_find(p) ==
  \E email \in RawEmails, password \in Passwords, ok \in BOOLEAN :
    /\ authReq[p].pc = "idle"
    /\ Len(users) + Cardinality(SigningUp) < MaxUsers
    /\ ok \in validEmail(email)
    /\ IF ~ok
       THEN AuthBegin(p, "signup", email, password, "done", 0,
                      errorHandler(ApiError(HTTP_BAD_REQUEST, EMAIL_INVALID)))
       ELSE IF findUserByEmail(users, toLowerCase(email)) # 0
       THEN AuthBegin(p, "signup", email, password, "done",
                      findUserByEmail(users, toLowerCase(email)),
                      errorHandler(ApiError(HTTP_BAD_REQUEST,
                                            UNABLE_TO_CREATE_ACCOUNT)))
       ELSE AuthBegin(p, "signup", email, password, "save", 0, NoRes)
    /\ UNCHANGED <<db, req, budget, serial, http, orphaned, activations, window,
                   identity>>

(* user.save() under the unique index, then generateToken *)
signup_save(p) ==
  /\ authReq[p].op = "signup" /\ authReq[p].pc = "save"
  /\ LET email == trim(toLowerCase(authReq[p].email))
         doc == [email |-> email, password |-> bcryptHash(authReq[p].password),
                 isActive |-> DEFAULT_IS_ACTIVE]
         token == generateToken(UserId(Len(users) + 1))
     IN IF UniqueEmail(users, email)
        THEN /\ AuthDone(p, errorHandler(signupCatch(MongoServerError("email"))))
             /\ UNCHANGED <<users, issued>>
        ELSE /\ users' = Append(users, doc)
             /\ IF token.ok
                THEN /\ issued' = issued \cup {token.token}
                     /\ AuthIssued(p, Len(users) + 1, token.token,
                                   HTTP_CREATED)
                ELSE /\ AuthDone(p, errorHandler(signupCatch(token.err)))
                     /\ UNCHANGED issued
  /\ UNCHANGED <<db, req, budget, serial, http, orphaned, activations, window, env>>

(* ------------------------------- login --------------------------------- *)
(* validateRequest, User.findOne({email: email.toLowerCase()}), and the    *)
(* checks made on the document found                                       *)
login_find(p) ==
  \E email \in RawEmails, password \in Passwords, ok \in BOOLEAN :
    /\ authReq[p].pc = "idle"
    /\ ok \in validEmail(email)
    /\ LET found == findUserByEmail(users, toLowerCase(email))
           err == loginGate(users, found)
       IN IF ~ok
          THEN AuthBegin(p, "login", email, password, "done", 0,
                         errorHandler(ApiError(HTTP_BAD_REQUEST,
                                               EMAIL_INVALID)))
          ELSE IF err # NoErr
          THEN AuthBegin(p, "login", email, password, "done", found,
                         errorHandler(err))
          ELSE AuthBegin(p, "login", email, password, "compare", found,
                         NoRes)
    /\ UNCHANGED <<db, req, budget, serial, http, orphaned, activations, window,
                   identity>>

(* user.comparePassword(password), then generateToken *)
login_compare(p) ==
  /\ authReq[p].op = "login" /\ authReq[p].pc = "compare"
  /\ LET token == generateToken(UserId(authReq[p].found))
     IN IF ~comparePassword(authReq[p].user, authReq[p].password)
        THEN /\ AuthDone(p, errorHandler(ApiError(HTTP_UNAUTHORIZED,
                                                  INVALID_EMAIL_OR_PASSWORD)))
             /\ UNCHANGED issued
        ELSE IF token.ok
        THEN /\ issued' = issued \cup {token.token}
             /\ AuthIssued(p, authReq[p].found, token.token, HTTP_OK)
        ELSE /\ AuthDone(p, errorHandler(token.err))
             /\ UNCHANGED issued
  /\ UNCHANGED <<db, req, budget, serial, http, orphaned, activations, window,
                 users, env>>

(* the response leaves *)
auth_respond(p) ==
  /\ authReq[p].pc = "done"
  /\ authReq' = [authReq EXCEPT ![p] = AuthIdle]
  /\ UNCHANGED <<db, req, budget, serial, http, orphaned, activations, window,
                 identity>>

(* an account is deactivated: isActive becomes false *)
deactivateUser ==
  \E i \in 1..Len(users) :
    /\ users[i].isActive
    /\ users' = [users EXCEPT ![i].isActive = FALSE]
    /\ UNCHANGED <<db, req, budget, serial, http, orphaned, activations, window,
                   authReq, issued, env>>

(* a bearer token this server issued, presented with a request: what       *)
(* authenticate makes of it                                                *)
Bearer(token) == authenticate(Authorization("Bearer ", token), env.JWT_SECRET)

(* POST /api/project/create behind authenticate: the service runs with     *)
(* req.user.userId of an issued token                                      *)
createProject_authenticated(p) ==
  /\ createProject(p)
  /\ \E token \in issued :
       Bearer(token).ok /\ Bearer(token).user = req'[p].userId

(* the accounts behind the user ids of the service requests *)
Account(email, password, isActive) ==
  [email |-> email, password |-> bcryptHash(password), isActive |-> isActive]
SeedAccounts == <<Account(<<"a">>, "p1", TRUE), Account(<<"b">>, "p1", TRUE)>>
SeedEnv == [JWT_SECRET |-> "k1"]
TokensOf(us, e) ==
  IF e.JWT_SECRET = NoSecret THEN {}
  ELSE {Jwt(e.JWT_SECRET, FALSE, UserId(i)) : i \in 1..Len(us)}

(* ========================== specifications ============================= *)
(* Databases the service has already built when the observed requests      *)
(* begin: the empty database, or user A's project 1 with prompt 1 and up   *)
(* to two versions created one after another (createPromptVersion numbers  *)
(* them v1, v2; each create chose its own activePrompt / isActive, and a   *)
(* create with activePrompt = true cleared the flag of the earlier one).   *)
SeedVersion(n, activePrompt, isActive) ==
  [userId |-> "A", promptId |-> 1, promptText |-> <<"x">>,
   version |-> versionLabel(n), versionName |-> versionNameLabel(n),
   activePrompt |-> activePrompt, isActive |-> isActive]

SeedVersions ==
  { <<>>,
    <<SeedVersion(1, TRUE, TRUE)>>,
    <<SeedVersion(1, TRUE, TRUE), SeedVersion(2, FALSE, TRUE)>>,
    <<SeedVersion(1, FALSE, FALSE), SeedVersion(2, TRUE, TRUE)>>,
    <<SeedVersion(1, TRUE, FALSE), SeedVersion(2, FALSE, TRUE)>> }

SeedDatabases ==
  {<<<<>>, <<>>, <<>>>>}
  \cup {<<<<[userId |-> "A", name |-> <<"n">>, isActive |-> TRUE]>>,
          <<[userId |-> "A", projectId |-> 1, name |-> <<"n">>,
             isActive |-> TRUE]>>,
          vs>> : vs \in SeedVersions}

InitDb ==
  /\ \E seed \in SeedDatabases :
       /\ projects = seed[1]
       /\ prompts = seed[2]
       /\ versions = seed[3]
  /\ req = [p \in Procs |-> Idle]
  /\ orphaned = {}
  /\ activations = [p \in Procs |-> NoActivation]
  /\ window = [p \in Procs |-> NoWindow]
  /\ http = NoHttp
  /\ authReq = [p \in Procs |-> AuthIdle]
  /\ users = SeedAccounts
  /\ env = SeedEnv
  /\ issued = TokensOf(users, env)

(* concurrent requests *)
Init ==
  /\ InitDb
  /\ budget = MaxRequests
  /\ serial = FALSE

(* requests served one after another *)
InitSeq ==
  /\ InitDb
  /\ budget = MaxRequests
  /\ serial = TRUE

(* one request per connection, overlapping at will *)
InitRace ==
  /\ InitDb
  /\ budget = Cardinality(Procs)
  /\ serial = FALSE

Next ==
  \/ \E p \in Procs : createProject(p)
  \/ \E p \in Procs : getProjectById(p)
  \/ \E p \in Procs : updateProject_find(p)
  \/ \E p \in Procs : updateProject_write(p)
  \/ \E p \in Procs : deleteProject(p)
  \/ \E p \in Procs : createPrompt_validate(p)
  \/ \E p \in Procs : createPrompt_save(p)
  \/ \E p \in Procs : getPromptById(p)
  \/ \E p \in Procs : updatePrompt_find(p)
  \/ \E p \in Procs : updatePrompt_write(p)
  \/ \E p \in Procs : deletePrompt(p)
  \/ \E p \in Procs : createPromptVersion_validate(p)
  \/ \E p \in Procs : createPromptVersion_count(p)
  \/ \E p \in Procs : createPromptVersion_deactivate(p)
  \/ \E p \in Procs : createPromptVersion_save(p)
  \/ \E p \in Procs : getActivePromptVersion_validate(p)
  \/ \E p \in Procs : getActivePromptVersion_find(p)
  \/ \E p \in Procs : getPromptVersionById(p)
  \/ \E p \in Procs : updatePromptVersion_find(p)
  \/ \E p \in Procs : updatePromptVersion_deactivate(p)
  \/ \E p \in Procs : updatePromptVersion_write(p)
  \/ \E p \in Procs : deletePromptVersion(p)
  \/ \E p \in Procs : respond(p)

Spec == Init /\ [][Next]_vars
SpecSeq == InitSeq /\ [][Next]_vars
SpecRace == InitRace /\ [][Next]_vars

(* one HTTP request, with any method, URL, Authorization header and        *)
(* JWT_SECRET, arriving at the application over any of the databases       *)
InitHttp ==
  /\ \E seed \in SeedDatabases :
       /\ projects = seed[1]
       /\ prompts = seed[2]
       /\ versions = seed[3]
  /\ req = [p \in Procs |-> Idle]
  /\ orphaned = {}
  /\ activations = [p \in Procs |-> NoActivation]
  /\ window = [p \in Procs |-> NoWindow]
  /\ budget = 0
  /\ serial = TRUE
  /\ \E method \in Methods, path \in RequestPaths, header \in Headers,
        secret \in JwtSecrets :
       http = Arrives(method, path, header, secret)
  /\ authReq = [p \in Procs |-> AuthIdle]
  /\ users = SeedAccounts
  /\ env = SeedEnv
  /\ issued = TokensOf(users, env)

NextHttp ==
  \/ app_skip
  \/ app_use
  \/ app_get
  \/ notFoundHandler
  \/ router_use
  \/ router_next
  \/ router_route
  \/ controller
  \/ errorHandler_send

SpecHttp == InitHttp /\ [][NextHttp]_vars

(* signup, login and deactivation over no account or one account (active   *)
(* or deactivated after its token was issued), with authenticated          *)
(* createProject requests                                                  *)
InitAuth ==
  /\ projects = <<>> /\ prompts = <<>> /\ versions = <<>>
  /\ req = [p \in Procs |-> Idle]
  /\ orphaned = {}
  /\ activations = [p \in Procs |-> NoActivation]
  /\ window = [p \in Procs |-> NoWindow]
  /\ http = NoHttp
  /\ budget = 1
  /\ serial = TRUE
  /\ authReq = [p \in Procs |-> AuthIdle]
  /\ env \in {[JWT_SECRET |-> s] : s \in JwtSecrets}
  /\ users \in {<<>>, <<Account(<<"a">>, "p1", TRUE)>>,
                <<Account(<<"a">>, "p1", FALSE)>>}
  /\ issued = TokensOf(users, env)

NextAuth ==
  \/ \E p \in Procs : signup_find(p)
  \/ \E p \in Procs : signup_save(p)
  \/ \E p \in Procs : login_find(p)
  \/ \E p \in Procs : login_compare(p)
  \/ \E p \in Procs : auth_respond(p)
  \/ deactivateUser

SpecAuth == InitAuth /\ [][NextAuth]_vars

(* authenticated createProject requests while accounts log in and are      *)
(* deactivated                                                             *)
NextOwner ==
  \/ \E p \in Procs : login_find(p)
  \/ \E p \in Procs : login_compare(p)
  \/ \E p \in Procs : auth_respond(p)
  \/ deactivateUser
  \/ \E p \in Procs : createProject_authenticated(p)
  \/ \E p \in Procs : respond(p)

SpecOwner == InitAuth /\ [][NextOwner]_vars

(* ============================== claims ================================= *)
(* the request of p took this step *)
Acted(p) == req'[p] # req[p]

Completed(p) == req[p].pc = "done"

FlaggedVersions(promptId) ==
  {i \in VersionsOf(versions, promptId) : versions[i].activePrompt}

LiveActiveVersions(promptId) ==
  {i \in VersionsOf(versions, promptId) :
     versions[i].activePrompt /\ versions[i].isActive}

NotFoundResponse(message) ==
  [success |-> FALSE, status |-> HTTP_NOT_FOUND, message |-> message,
   data |-> 0]

(* what a caller of the public active-version lookup is to receive in the  *)
(* current database                                                        *)
ExpectedActiveVersion(promptId) ==
  IF promptId \notin 1..Len(prompts) THEN NotFoundResponse(PROMPT_NOT_FOUND)
  ELSE IF ~prompts[promptId].isActive THEN NotFoundResponse(PROMPT_DELETED)
  ELSE IF LiveActiveVersions(promptId) = {}
       THEN NotFoundResponse(NO_ACTIVE_VERSION_FOUND)
       ELSE [success |-> TRUE, status |-> HTTP_OK, message |-> "",
             data |-> CHOOSE v \in LiveActiveVersions(promptId) : TRUE]

(* C1: in every reachable state, under any interleaving of create, update  *)
(* and delete requests, each prompt has at most one version with           *)
(* activePrompt = true and isActive = true.                                *)
C1_AtMostOneActiveVersion ==
  \A promptId \in PromptIds : Cardinality(LiveActiveVersions(promptId)) <= 1

(* a request lost an activation race to the unique index, and the prompt   *)
(* still has its one live active version                                   *)
C1_Witness ==
  \E p \in Procs :
    /\ activations[p].status = HTTP_CONFLICT
    /\ Cardinality(LiveActiveVersions(activations[p].promptId)) = 1
    /\ Cardinality(VersionsOf(versions, activations[p].promptId)) >= 2

(* C2: when two requests that each set activePrompt = true on different    *)
(* versions of one prompt overlap, each succeeds or fails with 409, and    *)
(* once both have finished exactly one version of the prompt has           *)
(* activePrompt = true.                                                    *)
RacePair(p, q) ==
  /\ p # q
  /\ ~InFlight(p) /\ ~InFlight(q)
  /\ activations[p].promptId # 0
  /\ activations[p].promptId = activations[q].promptId
  /\ activations[p].target # activations[q].target

C2_ActivationRace ==
  \A p, q \in Procs :
    RacePair(p, q) =>
      /\ activations[p].status \in {HTTP_OK, HTTP_CREATED, HTTP_CONFLICT}
      /\ activations[q].status \in {HTTP_OK, HTTP_CREATED, HTTP_CONFLICT}
      /\ Cardinality(FlaggedVersions(activations[p].promptId)) = 1

(* the two requests overlapped: one of them was refused by the index *)
C2_Witness ==
  \E p, q \in Procs :
    /\ RacePair(p, q)
    /\ activations[p].status = HTTP_CONFLICT
    /\ activations[q].status \in {HTTP_OK, HTTP_CREATED}

(* C3: after a create or update request with activePrompt = true on a      *)
(* non-deleted target completes successfully with no other request         *)
(* interleaved, the target is the only version of its prompt with          *)
(* activePrompt = true and getActivePromptVersion for that prompt returns  *)
(* the target.                                                             *)
C3_ActivationTakesEffect ==
  \A p \in Procs :
    ( /\ Completed(p)
      /\ req[p].op \in {"createPromptVersion", "updatePromptVersion"}
      /\ WantsActive(req[p].body)
      /\ req[p].res.success
      /\ versions[req[p].res.data].isActive )
    => LET target == req[p].res.data
           promptId == versions[target].promptId
       IN /\ FlaggedVersions(promptId) = {target}
          /\ ExpectedActiveVersion(promptId).success
          /\ ExpectedActiveVersion(promptId).data = target

(* C4: deletePromptVersion on the active version of a prompt changes no    *)
(* other version's activePrompt flag, and afterwards the active-version    *)
(* lookup for that (live) prompt fails with 'No active version found for   *)
(* this prompt' until a create or update request activates a version.      *)
C4_NoAutoPromotion ==
  [][ /\ \A p \in Procs :
           (Acted(p) /\ req'[p].op = "deletePromptVersion")
             => \A i \in 1..Len(versions) :
                  versions'[i].activePrompt = versions[i].activePrompt
      /\ \A promptId \in orphaned' :
           prompts'[promptId].isActive
             => LiveActiveVersions(promptId)' = {} ]_vars

(* C5: getActivePromptVersion(promptId) returns version v exactly when the *)
(* prompt exists with isActive = true and v is a version of it with        *)
(* activePrompt = true and isActive = true; otherwise it fails with        *)
(* 'Prompt not found', 'Prompt has been deleted' or 'No active version     *)
(* found for this prompt'; it never changes stored state.                  *)
C5_ActiveVersionLookup ==
  [][ \A p \in Procs :
        (Acted(p) /\ req'[p].op = "getActivePromptVersion")
          => /\ db' = db
             /\ req'[p].pc = "done"
                  => req'[p].res = ExpectedActiveVersion(req'[p].id) ]_vars

(* a lookup returned the live active version of a prompt that also has a   *)
(* soft-deleted version                                                    *)
C5_Witness ==
  \E p \in Procs :
    /\ Completed(p)
    /\ req[p].op = "getActivePromptVersion"
    /\ req[p].res.success
    /\ \E i \in VersionsOf(versions, req[p].id) : ~versions[i].isActive

(* C6: when createPromptVersion requests for one prompt run one after      *)
(* another, with any soft-deletes in between, the i-th created version     *)
(* gets version 'v<i>' and versionName 'Version <i>'.                      *)
CreationRank(i) ==
  Cardinality({j \in 1..i : versions[j].promptId = versions[i].promptId})

C6_SequentialNumbering ==
  \A i \in 1..Len(versions) :
    /\ versions[i].version = <<"v", CreationRank(i)>>
    /\ versions[i].versionName = <<"Version ", CreationRank(i)>>

(* a third version was created after an earlier one had been soft-deleted *)
C6_Witness ==
  /\ Len(versions) >= 3
  /\ CreationRank(Len(versions)) = 3
  /\ \E j \in 1..(Len(versions) - 1) :
       /\ versions[j].promptId = versions[Len(versions)].promptId
       /\ ~versions[j].isActive

(* C7: every getById, update and delete request issued by one user against *)
(* a Project, Prompt or PromptVersion owned by another user fails with     *)
(* that entity's 'not found' error (404) and leaves the entity unchanged.  *)
ForeignRequest(p, ops, before, after, message) ==
  ( /\ Acted(p)
    /\ req'[p].op \in ops
    /\ req'[p].id \in 1..Len(before)
    /\ before[req'[p].id].userId # req'[p].userId )
  => /\ req'[p].pc = "done"
     /\ req'[p].res = NotFoundResponse(message)
     /\ after[req'[p].id] = before[req'[p].id]

C8_NoInsertUnderDeletedParent ==
  [][ /\ Len(versions') > Len(versions)
           => prompts[versions'[Len(versions')].promptId].isActive
      /\ Len(prompts') > Len(prompts)
           => projects[prompts'[Len(prompts')].projectId].isActive ]_vars

(* C9: once a PromptVersion has isActive = false, no sequence of API       *)
(* operations sets its isActive back to true.                              *)
C9_SoftDeleteIsTerminal ==
  [][ \A i \in 1..Len(versions) :
        ~versions[i].isActive => ~versions'[i].isActive ]_vars

(* C10: an updatePromptVersion request with activePrompt = true whose      *)
(* target version is soft-deleted fails, does not set that version's       *)
(* activePrompt flag, and does not deactivate any other version.           *)
C10_NoActivationOfDeletedVersion ==
  [][ \A p \in Procs :
        ( /\ Acted(p)
          /\ req'[p].op = "updatePromptVersion"
          /\ WantsActive(req'[p].body)
          /\ findOwned(versions, req'[p].id, req'[p].userId) # 0
          /\ ~versions[req'[p].id].isActive )
        => /\ \A i \in 1..Len(versions) :
                versions'[i].activePrompt = versions[i].activePrompt
           /\ req'[p].pc = "done" => ~req'[p].res.success ]_vars
(* the request of p, taking this step, is one of ops on a document of coll *)
(* that its user owns                                                      *)
OwnRequest(p, ops, coll) ==
  /\ Acted(p)
  /\ req'[p].op \in ops
  /\ findOwned(coll, req'[p].id, req'[p].userId) # 0

Failed(p) == req'[p].pc = "done" /\ ~req'[p].res.success

(* C11: updatePromptVersion, getPromptVersionById and deletePromptVersion  *)
(* fail when the version's prompt is soft-deleted, and updatePrompt,       *)
(* getPromptById and deletePrompt fail when the prompt's project is        *)
(* soft-deleted; in each case nothing is changed.                          *)
C11_ParentDeletedBlocksChild ==
  [][ \A p \in Procs :
        /\ ( /\ OwnRequest(p, {"updatePromptVersion", "getPromptVersionById",
                               "deletePromptVersion"}, versions)
             /\ ~prompts[versions[req'[p].id].promptId].isActive )
           => (Failed(p) /\ db' = db)
        /\ ( /\ OwnRequest(p, {"updatePrompt", "getPromptById",
                               "deletePrompt"}, prompts)
             /\ ~projects[prompts[req'[p].id].projectId].isActive )
           => (Failed(p) /\ db' = db) ]_vars
(* a create request of p is taking its first step: the parent check *)
Creating(p, op) == Acted(p) /\ req[p].pc = "idle" /\ req'[p].op = op

Refused(p, message) ==
  /\ req'[p].pc = "done"
  /\ req'[p].res = NotFoundResponse(message)
  /\ db' = db

C14_LabelsNeverReassigned ==
  [][ \A i \in 1..Len(versions) :
        /\ versions'[i].version = versions[i].version
        /\ versions'[i].versionName = versions[i].versionName ]_vars

(* an earlier version of a prompt was soft-deleted by a request and a      *)
(* later version of that prompt still carries its creation rank            *)
C14_Witness ==
  \E p \in Procs :
    /\ Completed(p)
    /\ req[p].op = "deletePromptVersion"
    /\ req[p].res.success
    /\ \E j \in 1..Len(versions) :
         /\ j > req[p].id
         /\ versions[j].promptId = versions[req[p].id].promptId
         /\ versions[j].version = versionLabel(CreationRank(j))
         /\ versions[j].versionName = versionNameLabel(CreationRank(j))
(* C15: no operation changes the userId of an existing Project, Prompt or  *)
(* PromptVersion after it has been created.                                *)
C15_OwnerImmutable ==
  [][ /\ \A i \in 1..Len(projects) : projects'[i].userId = projects[i].userId
      /\ \A i \in 1..Len(prompts) : prompts'[i].userId = prompts[i].userId
      /\ \A i \in 1..Len(versions) : versions'[i].userId = versions[i].userId
    ]_vars

(* an owner's update request that named another user as userId was         *)
(* answered, and the project still belongs to the requester                *)
C15_Witness ==
  \E p \in Procs :
    /\ Completed(p)
    /\ req[p].op = "updateProject"
    /\ Has(req[p].body, "userId")
    /\ req[p].body.userId # req[p].userId
    /\ findOwned(projects, req[p].id, req[p].userId) # 0
(* C16: after a successful delete of a Project, Prompt or PromptVersion,   *)
(* every later getById for that id by its owner fails with 404 (the        *)
(* '... has been deleted' error), provided no update request on that       *)
(* entity intervenes.                                                      *)
(* Stated per step: a successful delete leaves the entity with isActive =  *)
(* false; no step other than one of an update request on that entity sets  *)
(* it back; and a getById by the owner of such an entity is refused.       *)
DeletedStaysUnreadable(before, after, getOp, updateOp, deleteOp, deleted) ==
  /\ \A p \in Procs :
       ( /\ Acted(p) /\ req'[p].op = deleteOp
         /\ req'[p].pc = "done" /\ req'[p].res.success )
       => ~after[req'[p].id].isActive
  /\ \A i \in 1..Len(before) :
       (~before[i].isActive /\ after[i].isActive)
       => \E p \in Procs :
            Acted(p) /\ req'[p].op = updateOp /\ req'[p].id = i
  /\ \A p \in Procs :
       ( /\ OwnRequest(p, {getOp}, before)
         /\ ~before[req'[p].id].isActive )
       => /\ req'[p].pc = "done"
          /\ req'[p].res = NotFoundResponse(deleted)

C16_DeletedThenGetFails ==
  [][ /\ DeletedStaysUnreadable(projects, projects', "getProjectById",
                                "updateProject", "deleteProject",
                                PROJECT_DELETED)
      /\ DeletedStaysUnreadable(prompts, prompts', "getPromptById",
                                "updatePrompt", "deletePrompt", PROMPT_DELETED)
      /\ DeletedStaysUnreadable(versions, versions', "getPromptVersionById",
                                "updatePromptVersion", "deletePromptVersion",
                                PROMPT_VERSION_DELETED) ]_vars

(* the owner read a version that a delete request had soft-deleted and got *)
(* 'Prompt version has been deleted'                                       *)
C16_Witness ==
  \E p \in Procs :
    /\ Completed(p)
    /\ req[p].op = "getPromptVersionById"
    /\ req[p].res = NotFoundResponse(PROMPT_VERSION_DELETED)
    /\ versions[req[p].id].activePrompt
    /\ versions[req[p].id].promptId \in orphaned
(* C17: a delete request on a Project, Prompt or PromptVersion that is     *)
(* already soft-deleted fails with NotFound, the same outcome as for an id *)
(* that does not exist.                                                    *)
RepeatedDeleteRefused(p, coll, deleteOp, notFound) ==
  ( /\ OwnRequest(p, {deleteOp}, coll)
    /\ ~coll[req'[p].id].isActive )
  => /\ req'[p].pc = "done"
     /\ req'[p].res = NotFoundResponse(notFound)

C17_RepeatedDeleteNotFound ==
  [][ \A p \in Procs :
        /\ RepeatedDeleteRefused(p, projects, "deleteProject",
                                 PROJECT_NOT_FOUND)
        /\ RepeatedDeleteRefused(p, prompts, "deletePrompt", PROMPT_NOT_FOUND)
        /\ RepeatedDeleteRefused(p, versions, "deletePromptVersion",
                                 PROMPT_VERSION_NOT_FOUND) ]_vars
(* C18: an update request on an existing, owned Project, Prompt or         *)
(* PromptVersion that supplies none of the updatable fields fails with     *)
(* 'No valid fields to update' (400), leaves the entity unchanged, and     *)
(* deactivates no version.                                                 *)
NoFieldsRefused(p, coll, updateOp, updatable) ==
  ( /\ OwnRequest(p, {updateOp}, coll)
    /\ DOMAIN req'[p].body \cap updatable = {} )
  => /\ req'[p].pc = "done"
     /\ req'[p].res = [success |-> FALSE, status |-> HTTP_BAD_REQUEST,
                       message |-> NO_VALID_FIELDS_TO_UPDATE, data |-> 0]
     /\ db' = db

C18_NoValidFields ==
  [][ \A p \in Procs :
        /\ NoFieldsRefused(p, projects, "updateProject", {"name", "isActive"})
        /\ NoFieldsRefused(p, prompts, "updatePrompt", {"name", "isActive"})
        /\ NoFieldsRefused(p, versions, "updatePromptVersion",
                           {"promptText", "activePrompt", "isActive"}) ]_vars

(* an owner's update of a version of a prompt with an active version named *)
(* only a field that cannot be updated, and was refused                    *)
C18_Witness ==
  \E p \in Procs :
    /\ Completed(p)
    /\ req[p].op = "updatePromptVersion"
    /\ Has(req[p].body, "version")
    /\ findOwned(versions, req[p].id, req[p].userId) # 0
    /\ req[p].res.status = HTTP_BAD_REQUEST
    /\ FlaggedVersions(versions[req[p].id].promptId) # {}

(* ------------------------------- C19 ----------------------------------- *)
(* a GET for the active version of a prompt *)
PublicRequest ==
  /\ http.method = "GET"
  /\ MatchesPattern(<<"api", "prompts", ":promptId", "active">>, http.path)

(* what the database alone says the answer is *)
PublicAnswer ==
  LET promptId == IdOf(http.path[3])
  IN IF /\ Exists(prompts, promptId)
        /\ prompts[promptId].isActive
        /\ \E i \in VersionsOf(versions, promptId) :
             versions[i].activePrompt /\ versions[i].isActive
     THEN HTTP_OK
     ELSE HTTP_NOT_FOUND

ProtectedRouters == {"projectRoutes", "promptRoutes", "promptVersionRoutes"}

(* the controllers of the project, prompt and prompt-version routes, the   *)
(* public one apart                                                        *)
ProtectedHandlers ==
  (UNION {{Routers[r][i].handler : i \in 1..Len(Routers[r])} :
            r \in ProtectedRouters})
  \ {"getActivePromptVersion"}

(* the header carries a token this deployment signed that has not expired *)
GoodToken ==
  /\ http.header.present /\ http.header.scheme = "Bearer "
  /\ http.secret # NoSecret
  /\ http.header.rest.raw = "jwt"
  /\ http.header.rest.signedWith = http.secret
  /\ ~http.header.rest.expired

(* no header, another scheme, or nothing after "Bearer " *)
NoToken ==
  \/ ~http.header.present
  \/ http.header.scheme # "Bearer "
  \/ http.header.rest.raw = ""

(* the request was stopped inside a protected router *)
RefusedByRouter ==
  /\ http.router \in ProtectedRouters
  /\ http.pc \in {"error", "sent"}
  /\ ~GoodToken

AccountOf(userId) ==
  LET m == {i \in 1..Len(users) : UserId(i) = userId}
  IN IF m = {} THEN 0 ELSE CHOOSE i \in m : TRUE

Deactivated(userId) ==
  AccountOf(userId) # 0 /\ ~users[AccountOf(userId)].isActive

(* C21: once a user is deactivated (isActive = false), an owner-scoped     *)
(* operation attempted with that user's identity, be it with a token       *)
(* issued before the deactivation, fails and changes no Project, Prompt    *)
(* or PromptVersion.                                                       *)
C21_DeactivatedUserBlocked ==
  [][ \A p \in Procs :
        (Acted(p) /\ req[p].pc = "idle" /\ Deactivated(req'[p].userId))
          => (Failed(p) /\ db' = db) ]_vars

(* ------------------------------- C22 ----------------------------------- *)
(* a login whose User.findOne returned an account *)
LoginOf(p) == authReq[p].op = "login" /\ authReq[p].found # 0

DeactivatedResponse ==
  [success |-> FALSE, status |-> HTTP_FORBIDDEN,
   message |-> ACCOUNT_DEACTIVATED, data |-> 0]

(* C22: loginUser never issues a token for an account it finds with        *)
(* isActive = false, whatever password is supplied: the request never      *)
(* reaches the password comparison and ends with 'Account has been         *)
(* deactivated'.                                                           *)
C22_NoTokenForDeactivated ==
  \A p \in Procs :
    (LoginOf(p) /\ ~authReq[p].user.isActive) =>
      /\ authReq[p].pc = "done"
      /\ authReq[p].token = EmptyToken
      /\ authReq[p].res = DeactivatedResponse

(* a deactivated account was refused although the password was right *)
C22_Witness ==
  \E p \in Procs :
    /\ LoginOf(p) /\ ~authReq[p].user.isActive
    /\ comparePassword(authReq[p].user, authReq[p].password)
    /\ authReq[p].res.message = ACCOUNT_DEACTIVATED

(* ------------------------------- C23 ----------------------------------- *)
InvalidCredentialsResponse ==
  [success |-> FALSE, status |-> HTTP_UNAUTHORIZED,
   message |-> INVALID_EMAIL_OR_PASSWORD, data |-> 0]

(* a finished login for an address no account has *)
UnknownEmailLogin(p) ==
  /\ authReq[p].op = "login" /\ authReq[p].pc = "done"
  /\ authReq[p].found = 0
  /\ authReq[p].res.status # HTTP_BAD_REQUEST

(* a finished login for an active account with a password that is not its *)
WrongPasswordLogin(p) ==
  /\ authReq[p].op = "login" /\ authReq[p].pc = "done"
  /\ authReq[p].found # 0 /\ authReq[p].user.isActive
  /\ ~comparePassword(authReq[p].user, authReq[p].password)

Normalised(email) == trim(toLowerCase(email))

UniqueEmails(us) ==
  \A i, j \in 1..Len(us) :
    /\ us[i].email = Normalised(us[i].email)
    /\ us[i].email = us[j].email => i = j

(* the signup of p ends in this step, and an account with its address,     *)
(* lower-cased and trimmed, was there before the step                      *)
SignupLoses(p) ==
  /\ authReq'[p] # authReq[p]
  /\ authReq'[p].op = "signup" /\ authReq'[p].pc = "done"
  /\ \E i \in 1..Len(users) : users[i].email = Normalised(authReq'[p].email)

(* C24: under any interleaving of signups no two accounts have the same    *)
(* lower-cased, trimmed e-mail address, and a signup that finds the        *)
(* address taken, by an account that existed or by one a concurrent        *)
(* signup created first, creates no account and fails with 400 and the     *)
(* generic 'Unable to create account. Please try again.' (or, when the     *)
(* address as typed is one the format check may refuse, with the 400 of    *)
(* that check).                                                            *)
C24_SignupKeepsEmailsUnique ==
  [][ /\ UniqueEmails(users')
      /\ \A p \in Procs :
           SignupLoses(p) =>
             /\ users' = users
             /\ issued' = issued
             /\ authReq'[p].res.status = HTTP_BAD_REQUEST
             /\ \/ authReq'[p].res.message = UNABLE_TO_CREATE_ACCOUNT
                \/ /\ FALSE \in validEmail(authReq'[p].email)
                   /\ authReq'[p].res.message = EMAIL_INVALID ]_vars

(* two signups for one address passed the lookup together; the second to   *)
(* save was refused by the index and got the generic 400                   *)
C24_Witness ==
  \E p, q \in Procs :
    /\ authReq[p].op = "signup" /\ authReq[p].pc = "done"
    /\ authReq[p].found = 0
    /\ authReq[p].res.status = HTTP_BAD_REQUEST
    /\ authReq[p].res.message = UNABLE_TO_CREATE_ACCOUNT
    /\ authReq[q].op = "signup" /\ authReq[q].pc = "done"
    /\ authReq[q].res.status = HTTP_CREATED
    /\ Normalised(authReq[p].email) = Normalised(authReq[q].email)
    /\ Len(users) = 1

(* ================= promptController.ts, earlier revision ============== *)
(* Before prompt versions existed a Prompt carried promptText and the      *)
(* activePrompt flag itself, had no owner, and the controller talked to    *)
(* the collection directly.                                                *)
NO_ACTIVE_PROMPT_FOUND == "No active prompt found for this project"

PromptsOf(ps, projectId) == {i \in 1..Len(ps) : ps[i].projectId = projectId}

(* uniqueness of the flagged prompt within a project, kept by the storage  *)
(* layer: at most one document per projectId has activePrompt = true       *)
UniqueActivePromptPerProject_off(ps) == TRUE

UniqueActivePromptPerProject(ps) ==
  \A i, j \in 1..Len(ps) :
    (i # j /\ ps[i].activePrompt /\ ps[j].activePrompt)
      => ps[i].projectId # ps[j].projectId

(* validateProjectExists(projectId): "" when the project passes *)
validateProjectExistsById(projectId) ==
  IF ~Exists(projects, projectId) THEN PROJECT_NOT_FOUND
  ELSE IF ~projects[projectId].isActive THEN PROJECT_DELETED
       ELSE ""

(* Prompt.updateMany({projectId, activePrompt: true, _id: {$ne: exclude}}, *)
(*                   {$set: {activePrompt: false}})                        *)
deactivateOtherPrompts(ps, projectId, excludePromptId) ==
  [i \in 1..Len(ps) |->
     IF /\ ps[i].projectId = projectId
        /\ ps[i].activePrompt
        /\ i # excludePromptId
     THEN [ps[i] EXCEPT !.activePrompt = FALSE]
     ELSE ps[i]]

FlaggedPromptBodies ==
  {[name |-> n, promptText |-> t] : n \in RawNames, t \in RawTexts}
  \cup {[name |-> n, promptText |-> t, activePrompt |-> b] :
          n \in RawNames, t \in RawTexts, b \in BOOLEAN}

UpdateFlaggedPromptBodies ==
  {NoBody}
  \cup {[activePrompt |-> b] : b \in BOOLEAN}
  \cup {[isActive |-> b] : b \in BOOLEAN}
  \cup {[promptText |-> t] : t \in RawTexts}

newFlaggedPrompt(projectId, body) ==
  [projectId |-> projectId, name |-> trim(body.name),
   promptText |-> trim(body.promptText),
   activePrompt |-> IF Has(body, "activePrompt") THEN body.activePrompt
                    ELSE DEFAULT_ACTIVE_PROMPT,
   isActive |-> IF Has(body, "isActive") THEN body.isActive
                ELSE DEFAULT_IS_ACTIVE]

(* updateData of updatePrompt *)
promptUpdateData(body) ==
  [k \in DOMAIN body \cap {"name", "promptText", "activePrompt", "isActive"}
     |-> IF k \in {"name", "promptText"} THEN trim(body[k]) ELSE body[k]]

(* $set *)
SetFields(doc, fields) ==
  [k \in DOMAIN doc |-> IF k \in DOMAIN fields THEN fields[k] ELSE doc[k]]

CreatingPrompt ==
  {p \in Procs : req[p].op = "promptController.createPrompt" /\ InFlight(p)}

(* createPrompt: validateProjectExists, validateRequest *)
promptController_createPrompt(p) ==
  \E projectId \in ProjectIds, body \in FlaggedPromptBodies :
    /\ CanStart(p)
    /\ Len(prompts) + Cardinality(CreatingPrompt) < MaxPrompts
    /\ LET msg == validateProjectExistsById(projectId)
       IN IF msg # ""
          THEN Begin(p, "promptController.createPrompt", "", projectId, body,
                     "done", 0, errorHandler(ApiError(HTTP_NOT_FOUND, msg)))
          ELSE Begin(p, "promptController.createPrompt", "", projectId, body,
                     IF Has(body, "activePrompt") /\ body.activePrompt
                     THEN "deactivate" ELSE "save",
                     0, NoRes)
    /\ UNCHANGED <<db, serial, authReq, identity, http, orphaned,
                   activations, window>>

(* createPrompt: await deactivateOtherPrompts(projectId) *)
promptController_createPrompt_deactivate(p) ==
  /\ At(p, "promptController.createPrompt", "deactivate")
  /\ prompts' = deactivateOtherPrompts(prompts, req[p].id, 0)
  /\ Goto(p, "save", 0)
  /\ UNCHANGED <<projects, versions, serial, authReq, identity, http,
                 orphaned, activations, window>>

(* createPrompt: await prompt.save() *)
promptController_createPrompt_save(p) ==
  /\ At(p, "promptController.createPrompt", "save")
  /\ LET after == Append(prompts, newFlaggedPrompt(req[p].id, req[p].body))
     IN IF UniqueActivePromptPerProject(after)
        THEN /\ prompts' = after
             /\ Return(p, sendCreated(Len(after)))
        ELSE /\ Throw(p, MongoServerError("projectId"))
             /\ UNCHANGED prompts
  /\ UNCHANGED <<projects, versions, serial, authReq, identity, http,
                 orphaned, activations, window>>

(* updatePrompt: await Prompt.findById(id), then the fields of the body *)
promptController_updatePrompt(p) ==
  \E id \in PromptIds, body \in UpdateFlaggedPromptBodies :
    /\ CanStart(p)
    /\ IF ~Exists(prompts, id)
       THEN Begin(p, "promptController.updatePrompt", "", id, body, "done", 0,
                  errorHandler(ApiError(HTTP_NOT_FOUND, PROMPT_NOT_FOUND)))
       ELSE IF Has(body, "activePrompt") /\ body.activePrompt
       THEN Begin(p, "promptController.updatePrompt", "", id, body,
                  "deactivate", prompts[id].projectId, NoRes)
       ELSE IF DOMAIN promptUpdateData(body) = {}
       THEN Begin(p, "promptController.updatePrompt", "", id, body, "done", 0,
                  errorHandler(ApiError(HTTP_BAD_REQUEST,
                                        NO_VALID_FIELDS_TO_UPDATE)))
       ELSE Begin(p, "promptController.updatePrompt", "", id, body, "write",
                  prompts[id].projectId, NoRes)
    /\ UNCHANGED <<db, serial, authReq, identity, http, orphaned,
                   activations, window>>

(* updatePrompt: await deactivateOtherPrompts(prompt.projectId, id) *)
promptController_updatePrompt_deactivate(p) ==
  /\ At(p, "promptController.updatePrompt", "deactivate")
  /\ prompts' = deactivateOtherPrompts(prompts, req[p].local, req[p].id)
  /\ Goto(p, "write", req[p].local)
  /\ UNCHANGED <<projects, versions, serial, authReq, identity, http,
                 orphaned, activations, window>>

(* updatePrompt: await Prompt.findByIdAndUpdate(id, {$set: updateData}) *)
promptController_updatePrompt_write(p) ==
  /\ At(p, "promptController.updatePrompt", "write")
  /\ LET after == [prompts EXCEPT ![req[p].id] =
                     SetFields(@, promptUpdateData(req[p].body))]
     IN IF UniqueActivePromptPerProject(after)
        THEN /\ prompts' = after
             /\ Return(p, sendSuccess(req[p].id, HTTP_OK))
        ELSE /\ Throw(p, MongoServerError("projectId"))
             /\ UNCHANGED prompts
  /\ UNCHANGED <<projects, versions, serial, authReq, identity, http,
                 orphaned, activations, window>>

(* project 1 with no prompt, with its flagged prompt, or with a flagged    *)
(* prompt that was soft-deleted                                            *)
FlaggedPrompt(activePrompt, isActive) ==
  [projectId |-> 1, name |-> <<"n">>, promptText |-> <<"x">>,
   activePrompt |-> activePrompt, isActive |-> isActive]

InitFlagged ==
  /\ projects = <<[userId |-> "A", name |-> <<"n">>, isActive |-> TRUE]>>
  /\ prompts \in {<<>>, <<FlaggedPrompt(TRUE, TRUE)>>,
                  <<FlaggedPrompt(TRUE, FALSE)>>,
                  <<FlaggedPrompt(FALSE, TRUE)>>}
  /\ versions = <<>>
  /\ req = [p \in Procs |-> Idle]
  /\ orphaned = {}
  /\ activations = [p \in Procs |-> NoActivation]
  /\ window = [p \in Procs |-> NoWindow]
  /\ http = NoHttp
  /\ authReq = [p \in Procs |-> AuthIdle]
  /\ users = SeedAccounts
  /\ env = SeedEnv
  /\ issued = TokensOf(users, env)
  /\ budget = MaxRequests + 1
  /\ serial = FALSE

NextFlagged ==
  \/ \E p \in Procs : promptController_createPrompt(p)
  \/ \E p \in Procs : promptController_createPrompt_deactivate(p)
  \/ \E p \in Procs : promptController_createPrompt_save(p)
  \/ \E p \in Procs : promptController_updatePrompt(p)
  \/ \E p \in Procs : promptController_updatePrompt_deactivate(p)
  \/ \E p \in Procs : promptController_updatePrompt_write(p)
  \/ \E p \in Procs : respond(p)

SpecFlagged == InitFlagged /\ [][NextFlagged]_vars

(* ------------------------------- C25 ----------------------------------- *)
FlaggedPrompts(projectId) ==
  {i \in PromptsOf(prompts, projectId) : prompts[i].activePrompt}

C26_LabelsUnique ==
  \A i, j \in 1..Len(versions) :
    (i # j /\ versions[i].promptId = versions[j].promptId)
      => versions[i].version # versions[j].version

(* ------------------------------- C27 ----------------------------------- *)
(* C27: when a prompt has a live active version as a request asking for    *)
(* activePrompt = true (createPromptVersion or updatePromptVersion) begins *)
(* and the request succeeds, no getActivePromptVersion of that prompt made *)
(* between its start and its end has answered 'No active version found    *)
(* for this prompt'.                                                       *)
ActivationSucceeded(p) ==
  /\ req[p].pc = "done"
  /\ req[p].op \in {"createPromptVersion", "updatePromptVersion"}
  /\ window[p].had
  /\ req[p].res.success

C27_ReadersAlwaysSeeAnActiveVersion ==
  \A p \in Procs : ActivationSucceeded(p) => ~window[p].missed

(* ============ earlier revision: promptVersionController ================ *)
(* controllers/promptVersionController.ts before the service layer: the    *)
(* handlers talk to the PromptVersion model themselves, take no user, and  *)
(* validate the body field by field.                                       *)
PROMPT_TEXT_REQUIRED == "Prompt text is required and must be a non-empty string"
IS_ACTIVE_MUST_BE_BOOLEAN == "isActive must be a boolean"
ACTIVE_PROMPT_MUST_BE_BOOLEAN == "activePrompt must be a boolean"

(* a JSON value of the request body with its typeof *)
Str(s) == [type |-> "string", value |-> s]
Bool(b) == [type |-> "boolean", value |-> b]
typeof(v) == v.type

(* promptText.trim() with promptText undefined *)
TypeError ==
  [name |-> "TypeError", statusCode |-> 0, code |-> 0,
   message |-> "Cannot read properties of undefined (reading 'trim')",
   field |-> ""]

(* validateRequest(schema): the error it throws, NoErr when it returns *)
validateRequest(schema) ==
  IF /\ Has(schema, "promptText")
     /\ (typeof(schema.promptText) # "string"
         \/ trim(schema.promptText.value) = <<>>)
  THEN ApiError(HTTP_BAD_REQUEST, PROMPT_TEXT_REQUIRED)
  ELSE IF Has(schema, "isActive") /\ typeof(schema.isActive) # "boolean"
  THEN ApiError(HTTP_BAD_REQUEST, IS_ACTIVE_MUST_BE_BOOLEAN)
  ELSE IF Has(schema, "activePrompt")
          /\ typeof(schema.activePrompt) # "boolean"
  THEN ApiError(HTTP_BAD_REQUEST, ACTIVE_PROMPT_MUST_BE_BOOLEAN)
  ELSE NoErr

(* validateRequest({k}) when body[k] !== undefined *)
validateField(body, k) ==
  IF Has(body, k) THEN validateRequest(Restrict(body, {k})) ELSE NoErr

(* activePrompt === true *)
IsTrue(body, k) ==
  Has(body, k) /\ typeof(body[k]) = "boolean" /\ body[k].value

JsonTexts == {Str(<<" ", "y", " ">>), Str(<<" ">>)}
JsonFlags == {Bool(TRUE), Bool(FALSE), Str(<<"y">>)}

CreateVersionJsonBodies ==
  {[promptText |-> t] : t \in JsonTexts}
  \cup {[promptText |-> t, activePrompt |-> a] :
          t \in JsonTexts, a \in JsonFlags}
  \cup {[promptText |-> t, activePrompt |-> Bool(TRUE), isActive |-> a] :
          t \in JsonTexts, a \in JsonFlags}
  \cup {[activePrompt |-> a] : a \in JsonFlags}

UpdateVersionJsonBodies ==
  {NoBody}
  \cup {[promptText |-> t] : t \in JsonTexts}
  \cup {[activePrompt |-> a] : a \in JsonFlags}
  \cup {[isActive |-> a] : a \in JsonFlags}
  \cup {[activePrompt |-> Bool(TRUE), isActive |-> a] : a \in JsonFlags}
  \cup {[promptText |-> t, activePrompt |-> Bool(TRUE)] : t \in JsonTexts}

(* PromptVersion.updateMany({promptId, activePrompt: true,                 *)
(*   _id: {$ne: excludeVersionId}}, {$set: {activePrompt: false}})         *)
deactivateOtherVersionsOfPrompt(vs, promptId, excludeVersionId) ==
  [i \in 1..Len(vs) |->
     IF /\ vs[i].promptId = promptId
        /\ vs[i].activePrompt
        /\ i # excludeVersionId
     THEN [vs[i] EXCEPT !.activePrompt = FALSE]
     ELSE vs[i]]

(* new PromptVersion({promptId, promptText, activePrompt, isActive}) *)
newVersionDocument(promptId, body) ==
  [promptId |-> promptId,
   promptText |-> trim(body.promptText.value),
   activePrompt |-> IF Has(body, "activePrompt") THEN body.activePrompt.value
                    ELSE FALSE,
   isActive |-> IF Has(body, "isActive") THEN body.isActive.value ELSE TRUE]

(* updateData of updatePromptVersion *)
versionUpdateData(body) ==
  [k \in DOMAIN body \cap {"promptText", "activePrompt", "isActive"} |->
     IF k = "promptText" THEN trim(body[k].value) ELSE body[k].value]

(* updatePromptVersion after its activePrompt block: the isActive check    *)
(* and the empty-update check; NoErr when the handler reaches the write    *)
afterActivePrompt(body) ==
  IF validateField(body, "isActive") # NoErr
  THEN validateField(body, "isActive")
  ELSE IF DOMAIN versionUpdateData(body) = {}
  THEN ApiError(HTTP_BAD_REQUEST, NO_VALID_FIELDS_TO_UPDATE)
  ELSE NoErr

(* history kept in local: the prompt written to and the activePrompt flag  *)
(* of every version when the request began                                 *)
Flags(vs) == [i \in 1..Len(vs) |-> vs[i].activePrompt]
Began(promptId) == [promptId |-> promptId, before |-> Flags(versions)]

(* createPromptVersion: await validatePromptExists(promptId), then         *)
(* validateRequest({promptText, activePrompt, isActive})                   *)
promptVersionController_createPromptVersion(p) ==
  \E promptId \in PromptIds, body \in CreateVersionJsonBodies :
    /\ CanStart(p)
    /\ Len(versions) < MaxVersions
    /\ LET op == "promptVersionController.createPromptVersion"
           msg == validatePromptExists(promptId, "")
       IN IF msg # ""
          THEN Begin(p, op, "", promptId, body, "done", Began(promptId),
                     errorHandler(ApiError(HTTP_NOT_FOUND, msg)))
          ELSE IF validateRequest(body) # NoErr
          THEN Begin(p, op, "", promptId, body, "done", Began(promptId),
                     errorHandler(validateRequest(body)))
          ELSE IF IsTrue(body, "activePrompt")
          THEN Begin(p, op, "", promptId, body, "deactivate",
                     Began(promptId), NoRes)
          ELSE IF ~Has(body, "promptText")
          THEN Begin(p, op, "", promptId, body, "done", Began(promptId),
                     errorHandler(TypeError))
          ELSE Begin(p, op, "", promptId, body, "save", Began(promptId),
                     NoRes)
    /\ UNCHANGED <<db, serial, authReq, identity, http, orphaned,
                   activations, window>>

(* createPromptVersion: await deactivateOtherVersions(promptId), then      *)
(* new PromptVersion({... promptText: promptText.trim() ...})              *)
promptVersionController_createPromptVersion_deactivate(p) ==
  /\ At(p, "promptVersionController.createPromptVersion", "deactivate")
  /\ versions' = deactivateOtherVersionsOfPrompt(versions, req[p].id, 0)
  /\ IF ~Has(req[p].body, "promptText")
     THEN Throw(p, TypeError)
     ELSE Goto(p, "save", req[p].local)
  /\ UNCHANGED <<projects, prompts, serial, authReq, identity, http,
                 orphaned, activations, window>>

(* createPromptVersion: await promptVersion.save() *)
promptVersionController_createPromptVersion_save(p) ==
  /\ At(p, "promptVersionController.createPromptVersion", "save")
  /\ LET after == Append(versions, newVersionDocument(req[p].id, req[p].body))
     IN IF UniqueActivePrompt(after)
        THEN /\ versions' = after
             /\ Return(p, sendCreated(Len(after)))
        ELSE /\ Throw(p, MongoServerError("promptId"))
             /\ UNCHANGED versions
  /\ UNCHANGED <<projects, prompts, serial, authReq, identity, http,
                 orphaned, activations, window>>

(* updatePromptVersion: await PromptVersion.findById(id), then the         *)
(* promptText and activePrompt blocks                                      *)
promptVersionController_updatePromptVersion(p) ==
  \E id \in VersionIds, body \in UpdateVersionJsonBodies :
    /\ CanStart(p)
    /\ LET op == "promptVersionController.updatePromptVersion"
           promptId == IF Exists(versions, id) THEN versions[id].promptId
                       ELSE 0
       IN IF findById(versions, id) = 0
          THEN Begin(p, op, "", id, body, "done", Began(promptId),
                     errorHandler(ApiError(HTTP_NOT_FOUND,
                                           PROMPT_VERSION_NOT_FOUND)))
          ELSE IF validateField(body, "promptText") # NoErr
          THEN Begin(p, op, "", id, body, "done", Began(promptId),
                     errorHandler(validateField(body, "promptText")))
          ELSE IF validateField(body, "activePrompt") # NoErr
          THEN Begin(p, op, "", id, body, "done", Began(promptId),
                     errorHandler(validateField(body, "activePrompt")))
          ELSE IF IsTrue(body, "activePrompt")
          THEN Begin(p, op, "", id, body, "deactivate", Began(promptId),
                     NoRes)
          ELSE IF afterActivePrompt(body) # NoErr
          THEN Begin(p, op, "", id, body, "done", Began(promptId),
                     errorHandler(afterActivePrompt(body)))
          ELSE Begin(p, op, "", id, body, "write", Began(promptId), NoRes)
    /\ UNCHANGED <<db, serial, authReq, identity, http, orphaned,
                   activations, window>>

(* updatePromptVersion: await deactivateOtherVersions(version.promptId,    *)
(* id), then the isActive block and the empty-update check                 *)
promptVersionController_updatePromptVersion_deactivate(p) ==
  /\ At(p, "promptVersionController.updatePromptVersion", "deactivate")
  /\ versions' = deactivateOtherVersionsOfPrompt(versions,
                                                 req[p].local.promptId,
                                                 req[p].id)
  /\ IF afterActivePrompt(req[p].body) # NoErr
     THEN Throw(p, afterActivePrompt(req[p].body))
     ELSE Goto(p, "write", req[p].local)
  /\ UNCHANGED <<projects, prompts, serial, authReq, identity, http,
                 orphaned, activations, window>>

(* updatePromptVersion: await PromptVersion.findByIdAndUpdate(id,          *)
(* {$set: updateData}, {new: true, runValidators: true})                   *)
promptVersionController_updatePromptVersion_write(p) ==
  /\ At(p, "promptVersionController.updatePromptVersion", "write")
  /\ LET after == setDoc(versions, req[p].id, versionUpdateData(req[p].body))
     IN IF UniqueActivePrompt(after)
        THEN /\ versions' = after
             /\ Return(p, sendSuccess(req[p].id, HTTP_OK))
        ELSE /\ Throw(p, MongoServerError("promptId"))
             /\ UNCHANGED versions
  /\ UNCHANGED <<projects, prompts, serial, authReq, identity, http,
                 orphaned, activations, window>>

NextInline ==
  \/ \E p \in Procs : promptVersionController_createPromptVersion(p)
  \/ \E p \in Procs : promptVersionController_createPromptVersion_deactivate(p)
  \/ \E p \in Procs : promptVersionController_createPromptVersion_save(p)
  \/ \E p \in Procs : promptVersionController_updatePromptVersion(p)
  \/ \E p \in Procs : promptVersionController_updatePromptVersion_deactivate(p)
  \/ \E p \in Procs : promptVersionController_updatePromptVersion_write(p)
  \/ \E p \in Procs : respond(p)

(* requests served one after another by the earlier controllers *)
SpecInline == InitSeq /\ [][NextInline]_vars

(* ------------------------------- C28 ----------------------------------- *)
(* C28: with no other request interleaved, a createPromptVersion or        *)
(* updatePromptVersion request that ends in an error leaves the            *)
(* activePrompt flag of every version as it was when the request began.    *)
EndedInError(p) ==
  /\ req[p].pc = "done"
  /\ req[p].op \in {"promptVersionController.createPromptVersion",
                    "promptVersionController.updatePromptVersion"}
  /\ ~req[p].res.success

C28_FailedRequestKeepsFlags ==
  \A p \in Procs : EndedInError(p) => Flags(versions) = req[p].local.before

(* ------------------------------- C29 ----------------------------------- *)
(* C29: in every reachable state at most one version of a prompt has       *)
(* activePrompt = true, soft-deleted versions (isActive = false) counted   *)
(* as well.                                                                *)
C29_AtMostOneFlaggedVersion ==
  \A promptId \in PromptIds : Cardinality(FlaggedVersions(promptId)) <= 1

(* deletePromptVersion has soft-deleted the flagged version of a prompt    *)
(* with several versions: the version keeps activePrompt = true and is the *)
(* only flagged one                                                        *)
C29_Witness ==
  \E p \in Procs :
    /\ req[p].pc = "done"
    /\ req[p].op = "deletePromptVersion"
    /\ req[p].res.success
    /\ versions[req[p].id].activePrompt
    /\ ~versions[req[p].id].isActive
    /\ Cardinality(VersionsOf(versions, versions[req[p].id].promptId)) >= 2
    /\ FlaggedVersions(versions[req[p].id].promptId) = {req[p].id}

(* --------------------------- two prompts ------------------------------- *)
(* user A's project 1 with prompts 1 and 2, each with its own active       *)
(* version, prompt 1 possibly with a second version                        *)
SeedVersionOf(promptId, n, activePrompt, isActive) ==
  [SeedVersion(n, activePrompt, isActive) EXCEPT !.promptId = promptId]

TwoPromptVersions ==
  { <<SeedVersionOf(1, 1, TRUE, TRUE), SeedVersionOf(2, 1, TRUE, TRUE)>>,
    <<SeedVersionOf(1, 1, TRUE, TRUE), SeedVersionOf(2, 1, TRUE, TRUE),
      SeedVersionOf(1, 2, FALSE, TRUE)>> }

InitTwoPrompts ==
  /\ req = [p \in Procs |-> Idle]
  /\ orphaned = {}
  /\ activations = [p \in Procs |-> NoActivation]
  /\ window = [p \in Procs |-> NoWindow]
  /\ http = NoHttp
  /\ authReq = [p \in Procs |-> AuthIdle]
  /\ users = SeedAccounts
  /\ env = SeedEnv
  /\ issued = TokensOf(users, env)
  /\ projects = <<[userId |-> "A", name |-> <<"n">>, isActive |-> TRUE]>>
  /\ prompts = <<[userId |-> "A", projectId |-> 1, name |-> <<"n">>,
                  isActive |-> TRUE],
                 [userId |-> "A", projectId |-> 1, name |-> <<"m">>,
                  isActive |-> TRUE]>>
  /\ versions \in TwoPromptVersions
  /\ budget = MaxRequests
  /\ serial = FALSE

NextVersions ==
  \/ \E p \in Procs : createPromptVersion_validate(p)
  \/ \E p \in Procs : createPromptVersion_count(p)
  \/ \E p \in Procs : createPromptVersion_deactivate(p)
  \/ \E p \in Procs : createPromptVersion_save(p)
  \/ \E p \in Procs : updatePromptVersion_find(p)
  \/ \E p \in Procs : updatePromptVersion_deactivate(p)
  \/ \E p \in Procs : updatePromptVersion_write(p)
  \/ \E p \in Procs : respond(p)

SpecTwoPrompts == InitTwoPrompts /\ [][NextVersions]_vars

(* ------------------------------- C30 ----------------------------------- *)
(* C30: a request that activates a version of prompt P changes no version  *)
(* of another prompt, and of the versions of P other than its target it    *)
(* changes nothing but the activePrompt flag.                              *)
Activating(p) ==
  /\ InFlight(p)
  /\ req[p].op \in {"createPromptVersion", "updatePromptVersion"}
  /\ WantsActive(req[p].body)
  /\ req'[p] # req[p]

(* the version the request of p sets active: the one it updates, or the    *)
(* one it appends                                                          *)
TargetVersion(p) ==
  IF req[p].op = "updatePromptVersion" THEN req[p].id ELSE Len(versions) + 1

OnlyFlagChanged(old, new) == new = [old EXCEPT !.activePrompt = new.activePrompt]

C30_ActivationFrame ==
  [][\A p \in Procs :
       Activating(p) =>
         \A i \in 1..Len(versions) :
           i # TargetVersion(p) =>
             \/ versions'[i] = versions[i]
             \/ /\ versions[i].promptId = TargetPrompt(p)
                /\ OnlyFlagChanged(versions[i], versions'[i])]_vars

(* a createPromptVersion with activePrompt = true has succeeded on a       *)
(* prompt that had a live active version: that version lost its flag, the  *)
(* new one is the only flagged version of the prompt, and the version of   *)
(* the other prompt is still flagged                                       *)
C30_Witness ==
  \E p \in Procs :
    /\ req[p].pc = "done"
    /\ req[p].op = "createPromptVersion"
    /\ window[p].had
    /\ req[p].res.success
    /\ FlaggedVersions(req[p].id) = {req[p].res.data}
    /\ \E i \in 1..Len(versions) :
         versions[i].promptId # req[p].id /\ versions[i].activePrompt

====
